---------------------------- MODULE Spec2Model ----------------------------
(***************************************************************************)
(* TurboGraph-JIT: a model of the pipeline engine.                         *)
(*                                                                         *)
(* The module holds thirteen state machines over one set of variables:     *)
(*   SpecSym    identifier sanitisation and entry-symbol naming            *)
(*   SpecExec   the data path of the two executors on the demo pipeline    *)
(*   SpecPipe   the same data path on pipelines with div, sqrt and an      *)
(*              unknown operator, over complete and incomplete contexts    *)
(*   SpecInterp the interpreter on one-step pipelines, one per operator    *)
(*   SpecMarshal the two executors on pipelines with mixed input and       *)
(*              output types                                               *)
(*   SpecCtx    one ExecutionContext under set_variable, clear and get     *)
(*   SpecConfig the JSON parser, the validator and the JSON generator      *)
(*   SpecGen    CodeGenerator on pairs of configs                          *)
(*   SpecCache  JITCompiler and its CompilationCache called directly       *)
(*   SpecThreads two threads in JITExecutor::execute on one fingerprint    *)
(*   SpecDll    DllLoader instances (load, unload, move, destroy)          *)
(*   SpecLoader a PipelineLoader called directly, over library files       *)
(*   Spec       the JIT runtime: JITExecutor, JITCompiler and its cache,   *)
(*              the artifact directory, PipelineLoader, LoadManager and    *)
(*              the OS loader's handles                                    *)
(* Each specification starts every machine in its constructed state and    *)
(* moves only its own machine.                                             *)
(*                                                                         *)
(* C++ strings that the code takes apart (fingerprints, literal texts,     *)
(* symbol names) are sequences of one-character strings; names that are    *)
(* only compared (variable names, operator names) are TLA+ strings.        *)
(***************************************************************************)
EXTENDS Integers, Sequences, FiniteSets, TLC

VARIABLES
    \* ---- SpecSym
    symKind,        \* "none" | "hand" (config.fingerprint set by the caller) | "derived"
    symFp,          \* the two fingerprints, <<a, b>>
    symName,        \* the two emitted entry-symbol names, or <<>> before emission
    \* ---- SpecExec
    xcfg,           \* the PipelineConfig both executors were built from
    xin,            \* the caller's inputs [price_a, price_b, volume]
    ictx,           \* the interpreter's ExecutionContext
    ipc,            \* InterpreterExecutor::execute: index of the next step
    iret,           \* "running" | "true" | "false"
    iorder,         \* the steps execute_op has applied, in order
    jctx,           \* the JIT executor's ExecutionContext
    jret,           \* "none" | "true" | "false" | "throw": JITExecutor::execute's outcome
    \* ---- the OS loader, shared by SpecDll, SpecLoader and Spec
    os,             \* one record per successful dlopen: who opened it, the
                    \* path, and how many times dlclose was called on it;
                    \* a handle is its index, 0 is the null handle
    disk,           \* the files of the cache directory: path -> content
    \* ---- SpecDll
    dll,            \* DllLoader instances: st, handle_, path_
    \* ---- PipelineLoader (standalone in SpecLoader, LoadManager's in Spec)
    pl,             \* loaders_, functions_, names_
    plLast,         \* the last PipelineLoader / LoadManager call and its outcome
    \* ---- Spec: JITCompiler, JITExecutor objects, LoadManager
    cache,          \* JITCompiler::cache_: fingerprint -> CacheEntry
    ex,             \* JITExecutor objects
    exHist,         \* what the last execute calls of one executor did
    \* ---- SpecCache: JITCompiler called directly
    ccLast,         \* the last JITCompiler / CompilationCache call and its outcome
    \* ---- SpecCtx: one ExecutionContext
    cx,             \* ExecutionContext::variables
    cxLog,          \* the set_variable and clear calls made so far, in order
    cxGot,          \* the last get<T>(name) and its outcome
    \* ---- SpecConfig: JsonConfigParser, ConfigGenerator, create_from_file
    hand,           \* a config built in code, or <<>>
    jdoc,           \* the JSON document at hand, or <<>>
    pcfg,           \* what parse_string made of jdoc, or <<>>
    made,           \* "none" | "executor" | "rejected": create_from_file's outcome
    \* ---- SpecGen: CodeGenerator
    gen,            \* the units generated so far: config, fingerprint, source
    \* ---- SpecThreads: two threads in JITExecutor::execute
    thr             \* per thread: where it is in execute; the shared cache_

symVars == <<symKind, symFp, symName>>
execVars == <<xcfg, xin, ictx, ipc, iret, iorder, jctx, jret>>
dllVars == <<dll>>
plVars == <<pl, plLast>>
rtVars == <<cache, ex, exHist>>
ccVars == <<ccLast>>
ctxVars == <<cx, cxLog, cxGot>>
cfgVars == <<hand, jdoc, pcfg, made>>
genVars == <<gen>>
thrVars == <<thr>>
vars == <<symVars, execVars, os, disk, dllVars, plVars, rtVars, ccVars, ctxVars, cfgVars,
          genVars, thrVars>>

\* What the steps of one machine leave alone: the other machines.
SymRest == <<execVars, os, disk, dllVars, plVars, rtVars, ccVars, ctxVars, cfgVars,
    genVars, thrVars>>
ExecRest == <<symVars, os, disk, dllVars, plVars, rtVars, ccVars, ctxVars, cfgVars,
    genVars, thrVars>>
DllRest == <<symVars, execVars, disk, plVars, rtVars, ccVars, ctxVars, cfgVars,
    genVars, thrVars>>
PlRest == <<symVars, execVars, disk, dllVars, rtVars, ccVars, ctxVars, cfgVars,
    genVars, thrVars>>
RtRest == <<symVars, execVars, dllVars, ccVars, ctxVars, cfgVars,
    genVars, thrVars>>
CcRest == <<symVars, execVars, os, dllVars, plVars, ex, exHist, ctxVars, cfgVars,
    genVars, thrVars>>
CtxRest == <<symVars, execVars, os, disk, dllVars, plVars, rtVars, ccVars, cfgVars,
    genVars, thrVars>>
CfgRest == <<symVars, execVars, os, disk, dllVars, plVars, rtVars, ccVars, ctxVars,
    genVars, thrVars>>
GenRest == <<symVars, execVars, os, disk, dllVars, plVars, rtVars, ccVars, ctxVars,
    cfgVars, thrVars>>
ThrRest == <<symVars, execVars, os, disk, dllVars, plVars, rtVars, ccVars, ctxVars,
    cfgVars, genVars>>

-----------------------------------------------------------------------------
(* Characters *)

Digits == {"0", "1", "2", "3", "4", "5", "6", "7", "8", "9"}

Letters ==
    {"a", "b", "c", "d", "e", "f", "g", "h", "i", "j", "k", "l", "m",
     "n", "o", "p", "q", "r", "s", "t", "u", "v", "w", "x", "y", "z",
     "A", "B", "C", "D", "E", "F", "G", "H", "I", "J", "K", "L", "M",
     "N", "O", "P", "Q", "R", "S", "T", "U", "V", "W", "X", "Y", "Z"}

\* std::isdigit
isdigit(c) == c \in Digits

\* std::isalnum
isalnum(c) == c \in Digits \cup Letters

\* All sequences over S of length at most n.
SeqsUpTo(S, n) == UNION {[1..k -> S] : k \in 0..n}

-----------------------------------------------------------------------------
(* Identifier sanitisation and the entry-symbol name *)

\* A slip of the sanitiser: keeps letters only (isalpha for isalnum).
make_valid_identifier_alpha(str) ==
    IF str = <<>> THEN <<"p", "_", "i", "n", "v", "a", "l", "i", "d">>
    ELSE LET result == IF isdigit(str[1]) THEN <<"p", "_">> \o str ELSE str
         IN  [i \in 1..Len(result) |->
                IF result[i] \notin Letters /\ result[i] # "_"
                THEN "_" ELSE result[i]]

\* make_valid_identifier of the code generator.
make_valid_identifier(str) ==
    IF str = <<>> THEN <<"p", "_", "i", "n", "v", "a", "l", "i", "d">>
    ELSE LET result == IF isdigit(str[1]) THEN <<"p", "_">> \o str ELSE str
         IN  [i \in 1..Len(result) |->
                IF ~isalnum(result[i]) /\ result[i] # "_"
                THEN "_" ELSE result[i]]

\* "pipeline_execute_"
PipelineExecutePrefix ==
    <<"p", "i", "p", "e", "l", "i", "n", "e", "_",
      "e", "x", "e", "c", "u", "t", "e", "_">>

\* The name of the exported entry: "pipeline_execute_" << ns_name.
EntrySymbol(fingerprint) ==
    PipelineExecutePrefix \o make_valid_identifier(fingerprint)

HexDigit(d) ==
    <<"0", "1", "2", "3", "4", "5", "6", "7",
      "8", "9", "a", "b", "c", "d", "e", "f">>[d + 1]

\* The number of hex digits of n (n < 16^7).
HexLen(n) == CHOOSE k \in 1..7 : n < 16^k /\ (k = 1 \/ n >= 16^(k - 1))

\* hash_oss << std::hex << hash: lowercase, no padding, no prefix.
ToHex(n) ==
    [i \in 1..HexLen(n) |-> HexDigit((n \div 16^(HexLen(n) - i)) % 16)]

-----------------------------------------------------------------------------
(* SpecSym: two configs, their fingerprints and their entry symbols *)

\* Longest hand-set fingerprint tried.
MaxFpLen == 2

\* Largest hash value tried for a derived fingerprint.
MaxHash == 40

\* The characters hand-set fingerprints are drawn from: a digit, a hex
\* letter, the prefix letter, the underscore and a non-identifier character.
FpAlphabet == {"1", "a", "p", "_", "-"}

SymInit ==
    /\ symKind = "none"
    /\ symFp = <<>>
    /\ symName = <<>>

\* Two hand-built configs whose fingerprint field the caller has set.
SymHandBuilt ==
    /\ symKind = "none"
    /\ \E a, b \in SeqsUpTo(FpAlphabet, MaxFpLen) :
          symFp' = <<a, b>>
    /\ symKind' = "hand"
    /\ UNCHANGED symName
    /\ UNCHANGED SymRest

\* Two configs whose fingerprint compute_fingerprint derived from a hash.
SymComputeFingerprint ==
    /\ symKind = "none"
    /\ \E h1, h2 \in 0..MaxHash :
          symFp' = <<ToHex(h1), ToHex(h2)>>
    /\ symKind' = "derived"
    /\ UNCHANGED symName
    /\ UNCHANGED SymRest

\* CodeGenerator::generate_export_function for both configs.
SymGenerateExport ==
    /\ symKind # "none"
    /\ symName = <<>>
    /\ symName' = <<EntrySymbol(symFp[1]), EntrySymbol(symFp[2])>>
    /\ UNCHANGED <<symKind, symFp>>
    /\ UNCHANGED SymRest

SymNext == SymHandBuilt \/ SymComputeFingerprint \/ SymGenerateExport

-----------------------------------------------------------------------------
(* double values: exact fractions <<numerator, denominator>>, denominator  *)
(* positive, in lowest terms.  The inputs tried are small integers, on     *)
(* which +, -, * are exact in binary64 and / is the correctly rounded      *)
(* value of the fraction.                                                  *)

Abs(n) == IF n < 0 THEN -n ELSE n

RECURSIVE Gcd(_, _)
Gcd(a, b) == IF b = 0 THEN a ELSE Gcd(b, a % b)

Frac(n, d) ==
    LET s == IF d < 0 THEN -1 ELSE 1
        g == Gcd(Abs(n), Abs(d))
    IN  IF n = 0 THEN <<0, 1>> ELSE <<(s * n) \div g, (s * d) \div g>>

\* static_cast<double>(int)
ToDouble(i) == <<i, 1>>

DAdd(a, b) == Frac(a[1] * b[2] + b[1] * a[2], a[2] * b[2])
DSub(a, b) == Frac(a[1] * b[2] - b[1] * a[2], a[2] * b[2])
DMul(a, b) == Frac(a[1] * b[1], a[2] * b[2])
\* a / b for b # 0
DQuot(a, b) == Frac(a[1] * b[2], a[2] * b[1])
DIsZero(a) == a[1] = 0
DIsNeg(a) == a[1] < 0
DAbs(a) == <<Abs(a[1]), a[2]>>

\* The root of a perfect square; the values whose root is taken here are
\* perfect squares, where std::sqrt is exact.
ISqrt(n) == CHOOSE r \in 0..n : r * r = n
DSqrt(a) == Frac(ISqrt(a[1]), ISqrt(a[2]))

DLess(a, b) == a[1] * b[2] < b[1] * a[2]
\* std::floor, and the truncation of a static_cast to an integer type.
DFloor(a) == a[1] \div a[2]
DTrunc(a) == IF a[1] >= 0 THEN a[1] \div a[2] ELSE -((-a[1]) \div a[2])

-----------------------------------------------------------------------------
(* Literal texts *)

DigitValue(c) ==
    CASE c = "0" -> 0 [] c = "1" -> 1 [] c = "2" -> 2 [] c = "3" -> 3
      [] c = "4" -> 4 [] c = "5" -> 5 [] c = "6" -> 6 [] c = "7" -> 7
      [] c = "8" -> 8 [] c = "9" -> 9

RECURSIVE DigitRun(_, _)
\* The length of the run of digits of s that starts at position i.
DigitRun(s, i) ==
    IF i <= Len(s) /\ isdigit(s[i]) THEN 1 + DigitRun(s, i + 1) ELSE 0

RECURSIVE DigitsValue(_, _, _)
\* The decimal value of the n digits of s that start at position i.
DigitsValue(s, i, n) ==
    IF n = 0 THEN 0
    ELSE 10 * DigitsValue(s, i, n - 1) + DigitValue(s[i + n - 1])

RECURSIVE Pow10(_)
Pow10(k) == IF k = 0 THEN 1 ELSE 10 * Pow10(k - 1)

\* std::stod on a text made of an optional sign, digits and an optional
\* fraction: the longest prefix that is a number is converted; a text with
\* no such prefix throws (reported here as ok = FALSE).
stod(s) ==
    LET neg   == Len(s) >= 1 /\ s[1] = "-"
        start == IF Len(s) >= 1 /\ s[1] \in {"-", "+"} THEN 2 ELSE 1
        ni    == DigitRun(s, start)
        dot   == start + ni <= Len(s) /\ s[start + ni] = "."
        nf    == IF dot THEN DigitRun(s, start + ni + 1) ELSE 0
        mag   == DAdd(ToDouble(DigitsValue(s, start, ni)),
                      Frac(DigitsValue(s, start + ni + 1, nf), Pow10(nf)))
    IN  IF ni + nf = 0 THEN [ok |-> FALSE, val |-> <<0, 1>>]
        ELSE [ok |-> TRUE,
              val |-> IF neg THEN DSub(<<0, 1>>, mag) ELSE mag]

-----------------------------------------------------------------------------
(* Types, arguments, the demo pipeline *)

\* Arg::variable / Arg::literal
ArgVariable(name, dt) == [value |-> name, type |-> "VARIABLE", data_type |-> dt]
ArgLiteral(text, dt) == [value |-> text, type |-> "LITERAL", data_type |-> dt]

\* OpCallBuilder(op).output(out).args(a).build()
OpCall(op, out, a) == [op_name |-> op, output_var |-> out, args |-> a]

IOField(n, t, r) == [name |-> n, type |-> t, required |-> r]

\* create_demo_config (the fingerprint is computed separately)
DemoConfig ==
    [name |-> "demo_pipeline",
     inputs |-> <<IOField("price_a", "DOUBLE", TRUE),
                  IOField("price_b", "DOUBLE", TRUE),
                  IOField("volume", "INT32", TRUE)>>,
     variables |-> <<IOField("temp_sum", "DOUBLE", FALSE),
                     IOField("temp_product", "DOUBLE", FALSE),
                     IOField("final_score", "DOUBLE", FALSE)>>,
     steps |-> <<OpCall("add", "temp_sum",
                        <<ArgVariable("price_a", "DOUBLE"),
                          ArgVariable("price_b", "DOUBLE")>>),
                 OpCall("mul", "temp_product",
                        <<ArgVariable("temp_sum", "DOUBLE"),
                          ArgVariable("volume", "INT32")>>),
                 OpCall("div", "final_score",
                        <<ArgVariable("temp_product", "DOUBLE"),
                          ArgLiteral(<<"1", "0", "0">>, "DOUBLE")>>)>>,
     outputs |-> <<IOField("final_score", "DOUBLE", FALSE)>>]

-----------------------------------------------------------------------------
(* ExecutionContext: a map from names to Variable (type, value) *)

Variable(t, v) == [type |-> t, value |-> v]

\* The C++ alternative a ValueVariant holds, by the type of the value set.
HoldsDouble(var) == var.type = "DOUBLE"
HoldsInt32(var) == var.type = "INT32"
HoldsInt64(var) == var.type = "INT64"

has_variable(ctx, name) == name \in DOMAIN ctx

\* A store that keeps the first value set for a name (map::insert).
set_variable_keep_first(ctx, name, t, v) ==
    [n \in DOMAIN ctx \cup {name} |->
        IF n \in DOMAIN ctx THEN ctx[n] ELSE Variable(t, v)]

set_variable(ctx, name, t, v) ==
    [n \in DOMAIN ctx \cup {name} |->
        IF n = name THEN Variable(t, v) ELSE ctx[n]]

EmptyContext == [n \in {} |-> Variable("DOUBLE", <<0, 1>>)]

\* ExecutionContext::clear
clear(ctx) == EmptyContext

\* ExecutionContext::get<T>(name): std::runtime_error when the name is
\* absent, std::bad_variant_access when the variant holds another
\* alternative than T, the held value otherwise.
get(ctx, name, T) ==
    IF ~has_variable(ctx, name) THEN [throws |-> "runtime_error", value |-> <<>>]
    ELSE IF ctx[name].type # T
         THEN [throws |-> "bad_variant_access", value |-> <<>>]
         ELSE [throws |-> "no", value |-> <<ctx[name].value>>]

-----------------------------------------------------------------------------
(* InterpreterExecutor *)

\* A resolver that drops the int32 rung of the fallback chain.
get_arg_value_no_int32(arg, ctx) ==
    IF arg.type = "VARIABLE"
    THEN IF has_variable(ctx, arg.value)
         THEN IF HoldsDouble(ctx[arg.value]) THEN ctx[arg.value].value
              ELSE IF HoldsInt64(ctx[arg.value])
                   THEN ToDouble(ctx[arg.value].value)
                   ELSE <<0, 1>>
         ELSE <<0, 1>>
    ELSE IF stod(arg.value).ok THEN stod(arg.value).val ELSE <<0, 1>>

\* InterpreterExecutor::get_arg_value: always a double.
get_arg_value(arg, ctx) ==
    IF arg.type = "VARIABLE"
    THEN IF has_variable(ctx, arg.value)
         THEN IF HoldsDouble(ctx[arg.value]) THEN ctx[arg.value].value
              ELSE IF HoldsInt32(ctx[arg.value])
                   THEN ToDouble(ctx[arg.value].value)
                   ELSE IF HoldsInt64(ctx[arg.value])
                        THEN ToDouble(ctx[arg.value].value)
                        ELSE <<0, 1>>
         ELSE <<0, 1>>
    ELSE IF stod(arg.value).ok THEN stod(arg.value).val ELSE <<0, 1>>

\* A dispatch that skips a step whose operator it does not know.
execute_op_skip_unknown(op, ctx) ==
    LET args == [i \in 1..Len(op.args) |-> get_arg_value(op.args[i], ctx)]
        done(t, v) == [ok |-> TRUE, ctx |-> set_variable(ctx, op.output_var, t, v)]
    IN  CASE op.op_name = "add" -> done("DOUBLE", DAdd(args[1], args[2]))
          [] op.op_name = "mul" -> done("DOUBLE", DMul(args[1], args[2]))
          [] op.op_name = "div" ->
                done("DOUBLE", IF ~DIsZero(args[2])
                               THEN DQuot(args[1], args[2]) ELSE <<0, 1>>)
          [] op.op_name = "sqrt" -> done("DOUBLE", DSqrt(DAbs(args[1])))
          [] OTHER -> [ok |-> TRUE, ctx |-> ctx]

\* The operators InterpreterExecutor::execute_op dispatches on.
DispatchTable ==
    {"add", "sub", "mul", "div", "get_sign", "abs", "sqrt", "if_else", "max",
     "min", "square", "percent", "floor", "direct_output_int32",
     "direct_output_int64", "direct_output_double", "price_diff", "avg_avg_log"}

\* ops::avg_avg_log with its default intervals, for |origin| <= 250000.
avg_avg_log(origin) ==
    LET ori_abs == DTrunc(DAbs(origin))
        res == IF ori_abs <= 15000 THEN ori_abs \div 1000 + 1
               ELSE (15000 \div 1000 + 1) + (ori_abs - 15000) \div 5000 + 1
    IN  IF DIsZero(origin) THEN 0
        ELSE IF ~DIsNeg(origin) THEN res ELSE -res

\* InterpreterExecutor::execute_op.  Every argument is a double, so the
\* std::get<int32_t> of if_else, and of avg_avg_log given more than one
\* argument, throws std::bad_variant_access; the catch returns false.  A
\* name outside the dispatch chain is an unknown operator and returns false.
execute_op(op, ctx) ==
    LET args == [i \in 1..Len(op.args) |-> get_arg_value(op.args[i], ctx)]
        done(t, v) == [ok |-> TRUE, ctx |-> set_variable(ctx, op.output_var, t, v)]
        failed == [ok |-> FALSE, ctx |-> ctx]
    IN  IF op.op_name \notin DispatchTable THEN failed ELSE
        CASE op.op_name = "add" -> done("DOUBLE", DAdd(args[1], args[2]))
          [] op.op_name = "sub" -> done("DOUBLE", DSub(args[1], args[2]))
          [] op.op_name = "mul" -> done("DOUBLE", DMul(args[1], args[2]))
          [] op.op_name = "div" ->
                done("DOUBLE", IF ~DIsZero(args[2])
                               THEN DQuot(args[1], args[2]) ELSE <<0, 1>>)
          [] op.op_name = "abs" -> done("DOUBLE", DAbs(args[1]))
          [] op.op_name = "sqrt" -> done("DOUBLE", DSqrt(DAbs(args[1])))
          [] op.op_name = "if_else" -> failed
          [] op.op_name = "get_sign" ->
                done("INT32", IF DLess(<<0, 1>>, args[1]) THEN 1
                              ELSE IF DIsNeg(args[1]) THEN -1 ELSE 0)
          [] op.op_name = "max" ->
                done("DOUBLE", IF DLess(args[1], args[2]) THEN args[2] ELSE args[1])
          [] op.op_name = "min" ->
                done("DOUBLE", IF DLess(args[2], args[1]) THEN args[2] ELSE args[1])
          [] op.op_name = "square" -> done("DOUBLE", DMul(args[1], args[1]))
          [] op.op_name = "percent" ->
                done("DOUBLE", IF ~DIsZero(args[2])
                               THEN DMul(DQuot(args[1], args[2]), <<100, 1>>)
                               ELSE <<0, 1>>)
          [] op.op_name = "floor" -> done("INT32", DFloor(args[1]))
          [] op.op_name = "direct_output_int32" -> done("INT32", DTrunc(args[1]))
          [] op.op_name = "direct_output_int64" -> done("INT64", DTrunc(args[1]))
          [] op.op_name = "direct_output_double" -> done("DOUBLE", args[1])
          [] op.op_name = "price_diff" ->
                done("DOUBLE", IF DIsZero(args[1]) THEN <<0, 1>>
                               ELSE DSub(args[1], args[2]))
          [] op.op_name = "avg_avg_log" ->
                IF Len(args) > 1 THEN failed
                ELSE done("INT64", avg_avg_log(args[1]))

-----------------------------------------------------------------------------
(* The operator catalog and the operator library *)

\* OperatorRegistry::register_all_operators, the arithmetic entries:
\* function name, return type, arity, templated, default template.
OperatorRegistry ==
    [add |-> [function_name |-> "add_op", return_type |-> "DOUBLE",
              param_count |-> 2, needs_template |-> TRUE],
     sub |-> [function_name |-> "sub_op", return_type |-> "DOUBLE",
              param_count |-> 2, needs_template |-> TRUE],
     mul |-> [function_name |-> "mul_op", return_type |-> "DOUBLE",
              param_count |-> 2, needs_template |-> TRUE],
     div |-> [function_name |-> "div_op", return_type |-> "DOUBLE",
              param_count |-> 2, needs_template |-> TRUE],
     abs |-> [function_name |-> "abs_op", return_type |-> "DOUBLE",
              param_count |-> 1, needs_template |-> TRUE],
     sqrt |-> [function_name |-> "sqrt_op", return_type |-> "DOUBLE",
               param_count |-> 1, needs_template |-> TRUE]]

\* OperatorRegistry::register_all_operators, every entry: the declared
\* number of parameters by config name.
CatalogArity ==
    [get_sign |-> 1,
     price_diff |-> 2,
     avg_avg_log |-> 5,
     direct_output_int32 |-> 1,
     direct_output_int64 |-> 1,
     direct_output_double |-> 1,
     direct_output_string |-> 1,
     len |-> 1,
     list_to_string |-> 2,
     catein_list_cross |-> 2,
     catein_list_cross_count |-> 2,
     add |-> 2,
     sub |-> 2,
     mul |-> 2,
     div |-> 2,
     if_else |-> 3,
     max |-> 2,
     min |-> 2,
     abs |-> 1,
     square |-> 1,
     sqrt |-> 1,
     floor |-> 1,
     ceil |-> 1,
     percent |-> 2,
     moving_average |-> 2,
     vector_sum |-> 1,
     vector_avg |-> 1]

\* The config names of the catalog, spelled out.
CatalogSpelling ==
    [get_sign |-> <<"g", "e", "t", "_", "s", "i", "g", "n">>,
     price_diff |-> <<"p", "r", "i", "c", "e", "_", "d", "i", "f", "f">>,
     avg_avg_log |-> <<"a", "v", "g", "_", "a", "v", "g", "_", "l", "o", "g">>,
     direct_output_int32 |-> <<"d", "i", "r", "e", "c", "t", "_", "o", "u", "t", "p", "u", "t", "_", "i", "n", "t", "3", "2">>,
     direct_output_int64 |-> <<"d", "i", "r", "e", "c", "t", "_", "o", "u", "t", "p", "u", "t", "_", "i", "n", "t", "6", "4">>,
     direct_output_double |-> <<"d", "i", "r", "e", "c", "t", "_", "o", "u", "t", "p", "u", "t", "_", "d", "o", "u", "b", "l", "e">>,
     direct_output_string |-> <<"d", "i", "r", "e", "c", "t", "_", "o", "u", "t", "p", "u", "t", "_", "s", "t", "r", "i", "n", "g">>,
     len |-> <<"l", "e", "n">>,
     list_to_string |-> <<"l", "i", "s", "t", "_", "t", "o", "_", "s", "t", "r", "i", "n", "g">>,
     catein_list_cross |-> <<"c", "a", "t", "e", "i", "n", "_", "l", "i", "s", "t", "_", "c", "r", "o", "s", "s">>,
     catein_list_cross_count |-> <<"c", "a", "t", "e", "i", "n", "_", "l", "i", "s", "t", "_", "c", "r", "o", "s", "s", "_", "c", "o", "u", "n", "t">>,
     add |-> <<"a", "d", "d">>,
     sub |-> <<"s", "u", "b">>,
     mul |-> <<"m", "u", "l">>,
     div |-> <<"d", "i", "v">>,
     if_else |-> <<"i", "f", "_", "e", "l", "s", "e">>,
     max |-> <<"m", "a", "x">>,
     min |-> <<"m", "i", "n">>,
     abs |-> <<"a", "b", "s">>,
     square |-> <<"s", "q", "u", "a", "r", "e">>,
     sqrt |-> <<"s", "q", "r", "t">>,
     floor |-> <<"f", "l", "o", "o", "r">>,
     ceil |-> <<"c", "e", "i", "l">>,
     percent |-> <<"p", "e", "r", "c", "e", "n", "t">>,
     moving_average |-> <<"m", "o", "v", "i", "n", "g", "_", "a", "v", "e", "r", "a", "g", "e">>,
     vector_sum |-> <<"v", "e", "c", "t", "o", "r", "_", "s", "u", "m">>,
     vector_avg |-> <<"v", "e", "c", "t", "o", "r", "_", "a", "v", "g">>]

\* OperatorRegistry::get_operator on a name given as text: the config name,
\* or "" when the catalog holds none.
get_operator(text) ==
    IF \E n \in DOMAIN CatalogSpelling : CatalogSpelling[n] = text
    THEN CHOOSE n \in DOMAIN CatalogSpelling : CatalogSpelling[n] = text
    ELSE ""

\* An operator library whose div_op divides whatever the divisor is; a zero
\* divisor yields an infinity or a NaN, written <<1, 0>>.
ops_call_div_unguarded(function_name, a) ==
    CASE function_name = "add_op" -> DAdd(a[1], a[2])
      [] function_name = "sub_op" -> DSub(a[1], a[2])
      [] function_name = "mul_op" -> DMul(a[1], a[2])
      [] function_name = "div_op" ->
            IF DIsZero(a[2]) THEN <<1, 0>> ELSE DQuot(a[1], a[2])
      [] function_name = "sqrt_op" ->
            IF DIsNeg(a[1]) THEN <<0, 1>> ELSE DSqrt(a[1])

\* ops::add_op<double>, sub_op<double>, mul_op<double>, div_op<double>,
\* abs_op<double>, sqrt_op<double>
ops_call(function_name, a) ==
    CASE function_name = "add_op" -> DAdd(a[1], a[2])
      [] function_name = "sub_op" -> DSub(a[1], a[2])
      [] function_name = "mul_op" -> DMul(a[1], a[2])
      [] function_name = "div_op" ->
            IF DIsZero(a[2]) THEN <<0, 1>> ELSE DQuot(a[1], a[2])
      [] function_name = "abs_op" ->
            IF ~DIsNeg(a[1]) THEN a[1] ELSE DSub(<<0, 1>>, a[1])
      [] function_name = "sqrt_op" ->
            IF DIsNeg(a[1]) THEN <<0, 1>> ELSE DSqrt(a[1])

-----------------------------------------------------------------------------
(* CodeGenerator: the emitted source, part by part.  The namespace and the *)
(* exported symbol names are functions of the fingerprint, and the         *)
(* timestamp of the header is left out.                                    *)

\* get_cpp_type_name
get_cpp_type_name(type) ==
    CASE type = "INT32" -> "int32_t"
      [] type = "INT64" -> "int64_t"
      [] type = "DOUBLE" -> "double"
      [] type = "FLOAT" -> "float"
      [] type = "STRING" -> "std::string"
      [] OTHER -> "void"

\* One member declaration of struct PipelineContext.
Member(type, name) == [type_name |-> get_cpp_type_name(type), name |-> name]

RECURSIVE SeqOfSet(_)
\* The elements of a set, one after the other.
SeqOfSet(S) ==
    IF S = {} THEN <<>>
    ELSE LET e == CHOOSE e \in S : TRUE IN <<e>> \o SeqOfSet(S \ {e})

\* CodeGenerator::generate_context_struct: a member per input, a member per
\* declared variable, a member per step output that is not in defined_vars,
\* a member per declared output that is not in all_defined.  Both sets hold
\* the names of the inputs, of the variables and of the step outputs.
generate_context_struct(config) ==
    LET defined_vars ==
            {config.inputs[i].name : i \in 1..Len(config.inputs)}
            \cup {config.variables[i].name : i \in 1..Len(config.variables)}
            \cup {config.steps[i].output_var : i \in 1..Len(config.steps)}
        output_vars == {config.steps[i].output_var : i \in 1..Len(config.steps)}
        step_only == SeqOfSet({n \in output_vars : n \notin defined_vars})
        fresh == SelectSeq(config.outputs, LAMBDA f : f.name \notin defined_vars)
    IN  [i \in 1..Len(config.inputs) |->
            Member(config.inputs[i].type, config.inputs[i].name)]
        \o [i \in 1..Len(config.variables) |->
            Member(config.variables[i].type, config.variables[i].name)]
        \o [i \in 1..Len(step_only) |-> Member("DOUBLE", step_only[i])]
        \o [i \in 1..Len(fresh) |-> Member(fresh[i].type, fresh[i].name)]

\* CodeGenerator::generate_arg_code
generate_arg_code(arg) ==
    IF arg.type = "VARIABLE" THEN <<"c", "t", "x", ".">> \o arg.value
    ELSE arg.value

\* CodeGenerator::generate_op_call_code: the assigned member, the callee
\* (the catalog's function with its template argument, or the operator's
\* own name when the catalog holds none) and the argument texts.
generate_op_call_code(step) ==
    LET meta == get_operator(step.op_name)
    IN  [target |-> <<"c", "t", "x", ".">> \o step.output_var,
         callee |-> IF meta \in DOMAIN OperatorRegistry
                    THEN <<OperatorRegistry[meta].function_name,
                           IF OperatorRegistry[meta].needs_template
                           THEN get_cpp_type_name(OperatorRegistry[meta].return_type)
                           ELSE "">>
                    ELSE <<step.op_name, "">>,
         args |-> [k \in 1..Len(step.args) |-> generate_arg_code(step.args[k])]]

\* CodeGenerator::generate_export_function: the statements that read the
\* inputs from input_data, or write the outputs to output_data, each
\* through a pointer to the field's own type at the field's position; a
\* field of another type than double, int32_t or int64_t gets no statement.
export_statements(fields) ==
    LET all == [i \in 1..Len(fields) |->
                    [type_name |-> get_cpp_type_name(fields[i].type),
                     name |-> fields[i].name, offset |-> i - 1]]
    IN  SelectSeq(all, LAMBDA s : s.type_name \in {"double", "int32_t", "int64_t"})

\* CodeGenerator::generate
CodeGenerator_generate(config) ==
    [pipeline |-> config.name,
     fingerprint |-> config.fingerprint,
     context_struct |-> generate_context_struct(config),
     execute_internal |-> [i \in 1..Len(config.steps) |->
                              generate_op_call_code(config.steps[i])],
     outputs_comment |-> config.outputs # <<>>,
     reads |-> export_statements(config.inputs),
     writes |-> export_statements(config.outputs)]

-----------------------------------------------------------------------------
(* binary64 images.  Defined for the integral values of magnitude below    *)
(* 2^31 that the inputs tried lead to: the high word holds sign, exponent  *)
(* and the top twenty bits of the fraction, the low word the next 32.      *)

RECURSIVE Pow2(_)
Pow2(k) == IF k = 0 THEN 1 ELSE 2 * Pow2(k - 1)

RECURSIVE Log2(_)
Log2(n) == IF n < 2 THEN 0 ELSE 1 + Log2(n \div 2)

\* Bits 0..31 of the binary64 image, as an int32_t.
DoubleLo(d) ==
    LET m == Abs(d[1])
        e == Log2(m)
        u == (m - Pow2(e)) % Pow2(e - 20)
        half == Pow2(e - 21)
    IN  IF d[1] = 0 \/ e <= 20 THEN 0
        ELSE IF u < half THEN (u * Pow2(51 - e)) * 2
        ELSE ((((u - half) * Pow2(51 - e)) * 2) - 1073741824) - 1073741824

\* Bits 32..63 of the binary64 image, as an int32_t.
DoubleHi(d) ==
    LET m == Abs(d[1])
        e == Log2(m)
        top == IF e <= 20 THEN (m - Pow2(e)) * Pow2(20 - e)
               ELSE (m - Pow2(e)) \div Pow2(e - 20)
        body == (e + 1023) * Pow2(20) + top
    IN  IF d[1] = 0 THEN 0
        ELSE IF d[1] > 0 THEN body
        ELSE (body - 1073741824) - 1073741824

-----------------------------------------------------------------------------
(* The emitted compilation unit, by what it does when called *)

\* A conversion between scalar field types (static_cast, or the implicit
\* conversion at a call site or assignment).
Convert(val, from, to) ==
    CASE from = to -> val
      [] from = "DOUBLE" /\ to \in {"INT32", "INT64"} ->
            \* truncation toward zero
            IF val[1] >= 0 THEN val[1] \div val[2]
            ELSE -((-val[1]) \div val[2])
      [] from \in {"INT32", "INT64"} /\ to = "DOUBLE" -> ToDouble(val)
      [] OTHER -> val

\* generate_export_function, the input unpacking: the input at position off
\* is read from input_data taken as an array of that input's own type.  mem
\* is the array of doubles the caller passed; g stands for whatever a read
\* past its end finds.
EntryReadInput(type, off, mem, g) ==
    CASE type = "DOUBLE" ->
            IF off < Len(mem) THEN mem[off + 1] ELSE ToDouble(g)
      [] type = "INT32" ->
            IF off \div 2 < Len(mem)
            THEN IF off % 2 = 0 THEN DoubleLo(mem[off \div 2 + 1])
                                ELSE DoubleHi(mem[off \div 2 + 1])
            ELSE g
      [] OTHER -> g

\* The type of the PipelineContext field of a name (inputs, then variables).
FieldType(config, name) ==
    LET decl == config.inputs \o config.variables
        hits == {i \in 1..Len(decl) : decl[i].name = name}
    IN  IF hits = {} THEN "DOUBLE"
        ELSE decl[CHOOSE i \in hits : \A j \in hits : i <= j].type

\* The value of a decimal literal emitted verbatim into the source.
CppLiteral(text) == stod(text).val

\* generate_arg_code, as an operand of type double.
GenArgValue(config, arg, fields) ==
    IF arg.type = "VARIABLE"
    THEN Convert(fields[arg.value], FieldType(config, arg.value), "DOUBLE")
    ELSE CppLiteral(arg.value)

\* generate_op_call_code for one step: ctx.out = ops::f<double>(args...).
GenStep(config, step, fields) ==
    LET meta == OperatorRegistry[step.op_name]
        a    == [i \in 1..Len(step.args) |->
                    GenArgValue(config, step.args[i], fields)]
        r    == ops_call(meta.function_name, a)
    IN  [fields EXCEPT ![step.output_var] =
            Convert(r, meta.return_type, FieldType(config, step.output_var))]

RECURSIVE execute_internal(_, _, _)
\* execute_internal: the first n steps, in order.
execute_internal(config, n, fields) ==
    IF n = 0 THEN fields
    ELSE GenStep(config, config.steps[n],
                 execute_internal(config, n - 1, fields))

\* The names of the members of the emitted PipelineContext.
FieldNames(config) ==
    {generate_context_struct(config)[i].name :
        i \in 1..Len(generate_context_struct(config))}

\* What an array of doubles holds at one position: a double, written as
\* the fraction <<n, d>>, or, once the position was written through a
\* pointer to another type, the two 32-bit words <<lo, hi, "image">> of a
\* bit pattern that is not the image of a double written here.
IsImage(slot) == Len(slot) = 3

\* A context variable of type double that holds such a pattern.
IsImageValue(var) == var.type = "DOUBLE" /\ IsImage(var.value)

SlotWords(slot) ==
    IF IsImage(slot) THEN <<slot[1], slot[2]>>
    ELSE <<DoubleLo(slot), DoubleHi(slot)>>

\* Bits 0..30 of a 32-bit word.
Low31(x) == IF x >= 0 THEN x ELSE (x + 1073741824) + 1073741824

\* The exponent field (bits 52..62) of the pattern <<lo, hi>>.
ExponentField(w) == Low31(w[2]) \div Pow2(20)

\* The pattern read as a double: zero or subnormal, infinite or NaN, or a
\* normal number.
ImageClass(w) ==
    CASE ExponentField(w) = 0 -> "subnormal"
      [] ExponentField(w) = 2047 -> "nan"
      [] OTHER -> "normal"

\* The integral part of the normal number of pattern <<lo, hi>>, for the
\* numbers of magnitude below 2^31.
ImageTrunc(w) ==
    LET e == ExponentField(w) - 1023
        top == Pow2(20) + (Low31(w[2]) % Pow2(20))
        mag == CASE e < 0 -> 0
                 [] e \in 0..20 -> top \div Pow2(20 - e)
                 [] e \in 21..30 ->
                        top * Pow2(e - 20)
                        + (Low31(w[1]) \div Pow2(51 - e)) \div 2
                        + (IF w[1] < 0 THEN Pow2(e - 21) ELSE 0)
    IN  IF w[2] < 0 THEN -mag ELSE mag

\* The words as array content: the double they are the image of, when that
\* is an integral value, the words themselves otherwise.
WordsSlot(w) ==
    IF w[1] = 0 /\ w[2] = 0 THEN <<0, 1>>
    ELSE IF /\ ImageClass(w) = "normal"
            /\ ExponentField(w) - 1023 \in 0..30
            /\ <<DoubleLo(ToDouble(ImageTrunc(w))),
                  DoubleHi(ToDouble(ImageTrunc(w)))>> = w
         THEN ToDouble(ImageTrunc(w))
         ELSE <<w[1], w[2], "image">>

\* The two words of an int64_t whose value fits 32 bits.
Int64Words(n) == <<n, IF n < 0 THEN -1 ELSE 0>>

\* generate_export_function, the output writing: the output at position off
\* is stored into output_data taken as an array of that output's own type.
EntryWriteOutput(out, type, off, val) ==
    CASE type = "DOUBLE" -> [out EXCEPT ![off + 1] = val]
      [] type = "INT64" -> [out EXCEPT ![off + 1] = WordsSlot(Int64Words(val))]
      [] type = "INT32" ->
            LET w == SlotWords(out[off \div 2 + 1])
            IN  [out EXCEPT ![off \div 2 + 1] =
                    WordsSlot(IF off % 2 = 0 THEN <<val, w[2]>> ELSE <<w[1], val>>)]
      [] OTHER -> out

\* The members of PipelineContext after the unpacking and execute_internal.
\* A member that is not an input starts with whatever the stack held.
EntryFields(config, mem, g) ==
    LET unpacked ==
            [n \in FieldNames(config) |->
                LET hits == {i \in 1..Len(config.inputs) :
                                config.inputs[i].name = n}
                IN  IF hits = {} THEN Convert(ToDouble(g), "DOUBLE",
                                              FieldType(config, n))
                    ELSE LET i == CHOOSE i \in hits : \A j \in hits : j <= i
                         IN  EntryReadInput(config.inputs[i].type, i - 1, mem, g)]
    IN  execute_internal(config, Len(config.steps), unpacked)

RECURSIVE EntryWriteOutputs(_, _, _, _)
\* The output statements of the entry, the first k done.
EntryWriteOutputs(config, final, out, k) ==
    IF k = 0 THEN out
    ELSE EntryWriteOutput(EntryWriteOutputs(config, final, out, k - 1),
                          config.outputs[k].type, k - 1,
                          Convert(final[config.outputs[k].name],
                                  FieldType(config, config.outputs[k].name),
                                  config.outputs[k].type))

\* pipeline_execute_<ns>(input_data, output_data): unpack, run, write the
\* outputs at their positions.
Entry(config, mem, out, g) ==
    [result |-> TRUE,
     out |-> EntryWriteOutputs(config, EntryFields(config, mem, g), out,
                               Len(config.outputs))]

-----------------------------------------------------------------------------
(* JITExecutor::execute, from the call of a loaded entry on *)

\* The inputs of one declared type, in declaration order.
InputsOfType(config, t) == SelectSeq(config.inputs, LAMBDA f : f.type = t)

\* context.get<T>(name) throws when the name is absent or holds another type.
GetThrows(context, f) ==
    \/ ~has_variable(context, f.name)
    \/ f.type = "DOUBLE" /\ ~HoldsDouble(context[f.name])
    \/ f.type = "INT32" /\ ~HoldsInt32(context[f.name])

\* static_cast<int64_t> of a double read from output_doubles: a NaN or an
\* infinity has no int64_t value and the conversion is undefined; g stands
\* for what it yields.
CastToInt64(slot, g) ==
    IF ~IsImage(slot) THEN Convert(slot, "DOUBLE", "INT64")
    ELSE CASE ImageClass(SlotWords(slot)) = "subnormal" -> 0
           [] ImageClass(SlotWords(slot)) = "nan" -> g
           [] ImageClass(SlotWords(slot)) = "normal" -> ImageTrunc(SlotWords(slot))

RECURSIVE WriteOutputs(_, _, _, _, _)
\* The write-back loop over config_.outputs, the first k outputs done.
WriteOutputs(config, context, output_doubles, k, g) ==
    IF k = 0 THEN context
    ELSE LET before == WriteOutputs(config, context, output_doubles, k - 1, g)
             output == config.outputs[k]
         IN  CASE output.type = "DOUBLE" ->
                    set_variable(before, output.name, "DOUBLE", output_doubles[k])
               [] output.type = "INT32" ->
                    \* output_int32s is never handed to the entry
                    set_variable(before, output.name, "INT32", 0)
               [] output.type = "INT64" ->
                    set_variable(before, output.name, "INT64",
                                 CastToInt64(output_doubles[k], g))
               [] OTHER -> before

\* The block after the write-back: the last step's output, when it is not a
\* declared output, is set from output_doubles[0].
WriteLastStep(config, context, output_doubles) ==
    IF config.steps = <<>> THEN context
    ELSE LET last_step == config.steps[Len(config.steps)]
             found_in_outputs ==
                \E k \in 1..Len(config.outputs) :
                    config.outputs[k].name = last_step.output_var
         IN  IF ~found_in_outputs /\ output_doubles # <<>>
             THEN set_variable(context, last_step.output_var, "DOUBLE",
                               output_doubles[1])
             ELSE context

\* input_doubles: the values of the inputs declared double, in order; it is
\* the array handed to the entry as input_data.
MarshalInputs(config, context) ==
    LET dbl == InputsOfType(config, "DOUBLE")
    IN  [i \in 1..Len(dbl) |-> context[dbl[i].name].value]

\* execute with execute_func_ set: marshal, call, write back.
JitCall(config, context, g) ==
    IF \E i \in 1..Len(config.inputs) : GetThrows(context, config.inputs[i])
    THEN [ret |-> "throw", context |-> context]
    ELSE LET input_doubles == MarshalInputs(config, context)
             zeros == [k \in 1..Len(config.outputs) |-> <<0, 1>>]
             r == Entry(config, input_doubles, zeros, g)
             written == WriteOutputs(config, context, r.out, Len(config.outputs), g)
         IN  [ret |-> IF r.result THEN "true" ELSE "false",
              context |-> WriteLastStep(config, written, r.out)]

-----------------------------------------------------------------------------
(* SpecExec: one call of each executor on the same inputs *)

\* Prices tried are the multiples of 50 from -50 to 50 * MaxPriceUnits.
MaxPriceUnits == 2

\* Volumes tried are the multiples of 5 from 0 to 5 * MaxVolumeUnits.
MaxVolumeUnits == 2

Prices == {50 * k : k \in -1..MaxPriceUnits}
Volumes == {5 * k : k \in 0..MaxVolumeUnits}

\* What a read past the end of the input array may find.
Garbage == {0, 7}

\* The context the caller fills before execute.
CallerContext(in) ==
    set_variable(
        set_variable(
            set_variable(EmptyContext, "price_a", "DOUBLE", ToDouble(in.price_a)),
            "price_b", "DOUBLE", ToDouble(in.price_b)),
        "volume", "INT32", in.volume)

ExecInit ==
    /\ xcfg = DemoConfig
    /\ xin \in [price_a : Prices, price_b : Prices, volume : Volumes]
    /\ ictx = CallerContext(xin)
    /\ jctx = CallerContext(xin)
    /\ ipc = 1
    /\ iret = "running"
    /\ iorder = <<>>
    /\ jret = "none"

\* One iteration of the loop of InterpreterExecutor::execute.
InterpExecuteOp ==
    /\ iret = "running"
    /\ ipc <= Len(xcfg.steps)
    /\ LET r == execute_op(xcfg.steps[ipc], ictx)
       IN  IF r.ok
           THEN /\ ictx' = r.ctx
                /\ ipc' = ipc + 1
                /\ iorder' = Append(iorder, ipc)
                /\ iret' = iret
           ELSE /\ iret' = "false"
                /\ UNCHANGED <<ictx, ipc, iorder>>
    /\ UNCHANGED <<xcfg, xin, jctx, jret>>
    /\ UNCHANGED ExecRest

\* The loop is over: InterpreterExecutor::execute returns true.
InterpReturn ==
    /\ iret = "running"
    /\ ipc > Len(xcfg.steps)
    /\ iret' = "true"
    /\ UNCHANGED <<xcfg, xin, ictx, ipc, iorder, jctx, jret>>
    /\ UNCHANGED ExecRest

\* generate_op_call_code emits ops::<op_name>(...) for an operator the
\* catalog does not hold; the operator library has no such function, so the
\* unit does not compile and no entry is ever loaded.  Nor does a unit
\* compile whose PipelineContext declares a member twice, or whose
\* statements name a member that PipelineContext does not declare.
Compiles(config) ==
    LET members == generate_context_struct(config)
    IN  /\ \A i \in 1..Len(config.steps) :
              config.steps[i].op_name \in DOMAIN OperatorRegistry
        /\ \A i, j \in 1..Len(members) :
              members[i].name = members[j].name => i = j
        /\ \A i \in 1..Len(config.steps) :
              /\ config.steps[i].output_var \in FieldNames(config)
              /\ \A k \in 1..Len(config.steps[i].args) :
                    config.steps[i].args[k].type = "VARIABLE"
                        => config.steps[i].args[k].value \in FieldNames(config)
        /\ \A i \in 1..Len(config.outputs) :
              config.outputs[i].name \in FieldNames(config)

\* JITExecutor::execute once the artifact is compiled and loaded.
JitExecuteLoaded ==
    /\ jret = "none"
    /\ Compiles(xcfg)
    /\ \E g \in Garbage :
          LET r == JitCall(xcfg, jctx, g)
          IN  /\ jret' = r.ret
              /\ jctx' = r.context
    /\ UNCHANGED <<xcfg, xin, ictx, ipc, iret, iorder>>
    /\ UNCHANGED ExecRest

ExecNext == InterpExecuteOp \/ InterpReturn \/ JitExecuteLoaded

-----------------------------------------------------------------------------
(* SpecPipe: the two executors on pipelines over two double inputs, with   *)
(* contexts the caller filled completely, partly, or with another type     *)

\* Input values tried are k*k and -(k*k) for k up to MaxRoot.
MaxRoot == 2

PipeValues == {k * k : k \in 0..MaxRoot} \cup {-(k * k) : k \in 1..MaxRoot}

PipeInputs == <<IOField("x", "DOUBLE", TRUE), IOField("y", "DOUBLE", TRUE)>>

\* q = x / y; r = q + 1
DivPipeline ==
    [name |-> "div_pipeline",
     inputs |-> PipeInputs,
     variables |-> <<IOField("q", "DOUBLE", FALSE), IOField("r", "DOUBLE", FALSE)>>,
     steps |-> <<OpCall("div", "q", <<ArgVariable("x", "DOUBLE"),
                                      ArgVariable("y", "DOUBLE")>>),
                 OpCall("add", "r", <<ArgVariable("q", "DOUBLE"),
                                      ArgLiteral(<<"1">>, "DOUBLE")>>)>>,
     outputs |-> <<IOField("q", "DOUBLE", FALSE), IOField("r", "DOUBLE", FALSE)>>]

\* r = sqrt(x)
SqrtPipeline ==
    [name |-> "sqrt_pipeline",
     inputs |-> PipeInputs,
     variables |-> <<IOField("r", "DOUBLE", FALSE)>>,
     steps |-> <<OpCall("sqrt", "r", <<ArgVariable("x", "DOUBLE")>>)>>,
     outputs |-> <<IOField("r", "DOUBLE", FALSE)>>]

\* A pipeline whose step at position `at` names an operator that neither
\* the interpreter's dispatch nor the operator catalog knows.
UnknownOpPipeline(at) ==
    LET known == <<OpCall("add", "s", <<ArgVariable("x", "DOUBLE"),
                                        ArgVariable("y", "DOUBLE")>>),
                   OpCall("mul", "t", <<ArgVariable("x", "DOUBLE"),
                                        ArgVariable("y", "DOUBLE")>>),
                   OpCall("sub", "r", <<ArgVariable("x", "DOUBLE"),
                                        ArgVariable("y", "DOUBLE")>>)>>
    IN  [name |-> "unknown_op_pipeline",
         inputs |-> PipeInputs,
         variables |-> <<IOField("s", "DOUBLE", FALSE), IOField("t", "DOUBLE", FALSE),
                         IOField("r", "DOUBLE", FALSE)>>,
         steps |-> [i \in 1..3 |->
                      IF i = at THEN [known[i] EXCEPT !.op_name = "no_such_op"]
                      ELSE known[i]],
         outputs |-> <<IOField("r", "DOUBLE", FALSE)>>]

Pipelines == {DivPipeline, SqrtPipeline} \cup {UnknownOpPipeline(at) : at \in 1..3}

\* How the caller stored y: as declared, not at all, or as an int32.
ContextShapes == {"full", "missing", "mistyped"}

PipeContext(in) ==
    LET base == set_variable(EmptyContext, "x", "DOUBLE", ToDouble(in.x))
    IN  CASE in.how = "full" -> set_variable(base, "y", "DOUBLE", ToDouble(in.y))
          [] in.how = "missing" -> base
          [] in.how = "mistyped" -> set_variable(base, "y", "INT32", in.y)

PipeInit ==
    /\ xcfg \in Pipelines
    /\ xin \in [x : PipeValues, y : PipeValues, how : ContextShapes]
    /\ ictx = PipeContext(xin)
    /\ jctx = PipeContext(xin)
    /\ ipc = 1
    /\ iret = "running"
    /\ iorder = <<>>
    /\ jret = "none"

-----------------------------------------------------------------------------
(* SpecInterp: the interpreter on one-step pipelines, one for every name   *)
(* of the operator catalog and of the dispatch chain, with the catalog's   *)
(* arity of numeric arguments                                              *)

\* The first argument is the variable x, or one of these literals.
FirstArgKinds == {"variable", "literal_one", "literal_zero"}

\* x is stored, and declared, as a double or as an int32.
InterpShapes == {"DOUBLE", "INT32"}

\* r = name(c, y, z, 2, 3) cut to the catalog's arity of the name.
OpPipeline(name, first, xtype) ==
    LET c == CASE first = "variable" -> ArgVariable("x", xtype)
               [] first = "literal_one" -> ArgLiteral(<<"1">>, "DOUBLE")
               [] first = "literal_zero" -> ArgLiteral(<<"0">>, "DOUBLE")
        all == <<c, ArgVariable("y", "DOUBLE"), ArgVariable("z", "DOUBLE"),
                 ArgLiteral(<<"2">>, "DOUBLE"), ArgLiteral(<<"3">>, "DOUBLE")>>
    IN  [name |-> "op_pipeline",
         inputs |-> <<IOField("x", xtype, TRUE), IOField("y", "DOUBLE", TRUE),
                      IOField("z", "DOUBLE", TRUE)>>,
         variables |-> <<IOField("r", "DOUBLE", FALSE)>>,
         steps |-> <<OpCall(name, "r", SubSeq(all, 1, CatalogArity[name]))>>,
         outputs |-> <<IOField("r", "DOUBLE", FALSE)>>]

InterpContext(in) ==
    set_variable(
        set_variable(
            set_variable(EmptyContext, "x", in.how,
                         IF in.how = "DOUBLE" THEN ToDouble(in.x) ELSE in.x),
            "y", "DOUBLE", ToDouble(in.y)),
        "z", "DOUBLE", ToDouble(in.z))

InterpInit ==
    /\ xin \in [x : PipeValues, y : PipeValues, z : PipeValues, how : InterpShapes]
    /\ xcfg \in {OpPipeline(n, first, xin.how) :
                    n \in DOMAIN CatalogArity, first \in FirstArgKinds}
    /\ ictx = InterpContext(xin)
    /\ jctx = InterpContext(xin)
    /\ ipc = 1
    /\ iret = "running"
    /\ iorder = <<>>
    /\ jret = "none"

InterpNext == InterpExecuteOp \/ InterpReturn

-----------------------------------------------------------------------------
(* SpecMarshal: the two executors on pipelines whose inputs and outputs    *)
(* are declared with a mix of types                                        *)

\* Input values tried are the integers from -MaxMarshal to MaxMarshal.
MaxMarshal == 2

MarshalValues == -MaxMarshal..MaxMarshal

\* r = a + b; s = a - b
MarshalConfig(ta, tb, tr, ts) ==
    [name |-> "marshal_pipeline",
     inputs |-> <<IOField("a", ta, TRUE), IOField("b", tb, TRUE)>>,
     variables |-> <<IOField("r", tr, FALSE), IOField("s", ts, FALSE)>>,
     steps |-> <<OpCall("add", "r", <<ArgVariable("a", ta), ArgVariable("b", tb)>>),
                 OpCall("sub", "s", <<ArgVariable("a", ta), ArgVariable("b", tb)>>)>>,
     outputs |-> <<IOField("r", tr, FALSE), IOField("s", ts, FALSE)>>]

MarshalInputTypes == {"DOUBLE", "INT32"}
MarshalOutputTypes == {"DOUBLE", "INT32", "INT64"}

\* The context the caller fills: each input under its declared type.
MarshalContext(config, in) ==
    LET val(t, v) == IF t = "DOUBLE" THEN ToDouble(v) ELSE v
    IN  set_variable(
            set_variable(EmptyContext, "a", config.inputs[1].type,
                         val(config.inputs[1].type, in.a)),
            "b", config.inputs[2].type, val(config.inputs[2].type, in.b))

MarshalInit ==
    /\ xcfg \in {MarshalConfig(ta, tb, tr, ts) :
                    ta \in MarshalInputTypes, tb \in MarshalInputTypes,
                    tr \in MarshalOutputTypes, ts \in MarshalOutputTypes}
    /\ xin \in [a : MarshalValues, b : MarshalValues]
    /\ ictx = MarshalContext(xcfg, xin)
    /\ jctx = MarshalContext(xcfg, xin)
    /\ ipc = 1
    /\ iret = "running"
    /\ iorder = <<>>
    /\ jret = "none"

\* JITExecutor::execute, the input loop: where the value of the i-th input
\* goes.  A double is pushed onto input_doubles, an int32 onto
\* input_int32s, an input of another type nowhere.
ExecutorSlot(config, i) ==
    LET t == config.inputs[i].type
        before == Cardinality({j \in 1..(i - 1) : config.inputs[j].type = t})
    IN  CASE t = "DOUBLE" ->
                [array |-> "input_doubles", index |-> before, type_name |-> "double"]
          [] t = "INT32" ->
                [array |-> "input_int32s", index |-> before, type_name |-> "int32_t"]
          [] OTHER -> [array |-> "none", index |-> 0, type_name |-> ""]

\* Where the entry reads the i-th input: input_data is input_doubles.data().
EntrySlot(config, i) ==
    LET st == SelectSeq(export_statements(config.inputs),
                        LAMBDA r : r.offset = i - 1)
    IN  IF st = <<>> THEN [array |-> "none", index |-> 0, type_name |-> ""]
        ELSE [array |-> "input_doubles", index |-> st[1].offset,
              type_name |-> st[1].type_name]

\* sizeof, in bytes
SizeOf(type_name) == IF type_name = "int32_t" THEN 4 ELSE 8

-----------------------------------------------------------------------------
(* SpecCtx: set_variable, clear and get on one ExecutionContext *)

\* The calls logged are at most MaxCalls.
MaxCalls == 3

\* Values stored are 0..MaxCtxValue, as int32_t or as double.
MaxCtxValue == 1

CtxNames == {"a", "b"}
CtxTypes == {"DOUBLE", "INT32"}

\* The value k as the C++ type T.
CtxValue(T, k) == IF T = "DOUBLE" THEN ToDouble(k) ELSE k

CtxInit ==
    /\ cx = EmptyContext
    /\ cxLog = <<>>
    /\ cxGot = <<>>

CtxSetVariable(n, T, k) ==
    /\ Len(cxLog) < MaxCalls
    /\ cx' = set_variable(cx, n, T, CtxValue(T, k))
    /\ cxLog' = Append(cxLog, [call |-> "set_variable", name |-> n,
                               type |-> T, value |-> CtxValue(T, k)])
    /\ UNCHANGED cxGot
    /\ UNCHANGED CtxRest

CtxClear ==
    /\ Len(cxLog) < MaxCalls
    /\ cx' = clear(cx)
    /\ cxLog' = Append(cxLog, [call |-> "clear", name |-> "",
                               type |-> "", value |-> <<>>])
    /\ UNCHANGED cxGot
    /\ UNCHANGED CtxRest

\* get<T>(n); at is the number of calls made before it.
CtxGet(n, T) ==
    /\ cxGot' = [name |-> n, type |-> T, at |-> Len(cxLog), result |-> get(cx, n, T)]
    /\ UNCHANGED <<cx, cxLog>>
    /\ UNCHANGED CtxRest

CtxSetAny == \E n \in CtxNames, T \in CtxTypes, k \in 0..MaxCtxValue : CtxSetVariable(n, T, k)

CtxGetAny == \E n \in CtxNames, T \in CtxTypes : CtxGet(n, T)

CtxNext == CtxSetAny \/ CtxClear \/ CtxGetAny

-----------------------------------------------------------------------------
(* The JSON form of a config.  Every string of this part is a sequence of  *)
(* characters.  A document is the value json::parse returns: the set of    *)
(* top-level keys present and, under them, strings and arrays; every       *)
(* field object carries name, type and required, every step op, output     *)
(* and an args array of strings.                                           *)

\* data_type_to_string
data_type_to_string(type) ==
    CASE type = "INT32" -> <<"i", "n", "t", "3", "2">>
      [] type = "INT64" -> <<"i", "n", "t", "6", "4">>
      [] type = "DOUBLE" -> <<"d", "o", "u", "b", "l", "e">>
      [] type = "FLOAT" -> <<"f", "l", "o", "a", "t">>
      [] type = "STRING" -> <<"s", "t", "r", "i", "n", "g">>
      [] type = "INT32_LIST" -> <<"i", "n", "t", "3", "2", "_", "l", "i", "s", "t">>
      [] type = "INT64_LIST" -> <<"i", "n", "t", "6", "4", "_", "l", "i", "s", "t">>
      [] type = "DOUBLE_LIST" -> <<"d", "o", "u", "b", "l", "e", "_", "l", "i", "s", "t">>
      [] type = "STRING_LIST" -> <<"s", "t", "r", "i", "n", "g", "_", "l", "i", "s", "t">>
      [] OTHER -> <<"u", "n", "k", "n", "o", "w", "n">>

\* string_to_data_type
string_to_data_type(str) ==
    CASE str = <<"i", "n", "t", "3", "2">> -> "INT32"
      [] str = <<"i", "n", "t", "6", "4">> -> "INT64"
      [] str = <<"d", "o", "u", "b", "l", "e">> -> "DOUBLE"
      [] str = <<"f", "l", "o", "a", "t">> -> "FLOAT"
      [] str = <<"s", "t", "r", "i", "n", "g">> -> "STRING"
      [] str = <<"i", "n", "t", "3", "2", "_", "l", "i", "s", "t">> -> "INT32_LIST"
      [] str = <<"i", "n", "t", "6", "4", "_", "l", "i", "s", "t">> -> "INT64_LIST"
      [] str = <<"d", "o", "u", "b", "l", "e", "_", "l", "i", "s", "t">> -> "DOUBLE_LIST"
      [] str = <<"s", "t", "r", "i", "n", "g", "_", "l", "i", "s", "t">> -> "STRING_LIST"
      [] OTHER -> "UNKNOWN"

\* The number of characters std::stod consumes from a text made of an
\* optional sign, digits, a point and digits; 0 when it throws.
stod_pos(s) ==
    LET start == IF Len(s) >= 1 /\ s[1] \in {"-", "+"} THEN 2 ELSE 1
        ni    == DigitRun(s, start)
        dot   == start + ni <= Len(s) /\ s[start + ni] = "."
        nf    == IF dot THEN DigitRun(s, start + ni + 1) ELSE 0
    IN  IF ni + nf = 0 THEN 0
        ELSE (start - 1) + ni + (IF dot THEN 1 + nf ELSE 0)

\* The digits of INT32_MAX are ten; a text of fewer digits is in range.
FitsInt32(str) == Len(str) <= 9

\* JsonConfigParser::parse_arg on a JSON string.
parse_arg(str) ==
    IF str # <<>> /\ str[1] = "$"
    THEN ArgVariable(SubSeq(str, 2, Len(str)), "UNKNOWN")
    ELSE IF stod_pos(str) > 0 /\ stod_pos(str) = Len(str)
         THEN IF \E i \in 1..Len(str) : str[i] \in {".", "e", "E"}
              THEN ArgLiteral(str, "DOUBLE")
              ELSE IF FitsInt32(str) THEN ArgLiteral(str, "INT32")
                   ELSE ArgLiteral(str, "INT64")
         ELSE ArgLiteral(str, "STRING")

\* JsonConfigParser::parse_io_fields: an unknown type text is reported on
\* std::cerr and the field is kept with DataType::UNKNOWN.
parse_io_fields(arr) ==
    [i \in 1..Len(arr) |->
        IOField(arr[i].name, string_to_data_type(arr[i].type), arr[i].required)]

\* JsonConfigParser::parse_steps over parse_args
parse_steps(steps) ==
    [i \in 1..Len(steps) |->
        OpCall(steps[i].op, steps[i].output,
               [k \in 1..Len(steps[i].args) |-> parse_arg(steps[i].args[k])])]

RECURSIVE JoinArgs(_, _)
\* The values of the first n arguments, comma-separated.
JoinArgs(args, n) ==
    IF n = 0 THEN <<>>
    ELSE IF n = 1 THEN args[1].value
    ELSE JoinArgs(args, n - 1) \o <<",">> \o args[n].value

RECURSIVE InputsText(_, _)
\* name ":" type "," for the first n inputs.
InputsText(inputs, n) ==
    IF n = 0 THEN <<>>
    ELSE InputsText(inputs, n - 1) \o inputs[n].name \o <<":">>
            \o data_type_to_string(inputs[n].type) \o <<",">>

RECURSIVE StepsText(_, _)
\* op "(" args ")->" output ";" for the first n steps.
StepsText(steps, n) ==
    IF n = 0 THEN <<>>
    ELSE StepsText(steps, n - 1) \o steps[n].op_name \o <<"(">>
            \o JoinArgs(steps[n].args, Len(steps[n].args))
            \o <<")", "-", ">">> \o steps[n].output_var \o <<";">>

\* std::hash<std::string> followed by the hex formatting.  The hash is
\* implementation-defined; it is a function of the text, and the texts
\* compared here are few and short, so it is taken to separate them.
HexOfHash(str) == [hex_of_hash |-> str]

\* PipelineConfig::compute_fingerprint
PipelineConfig_compute_fingerprint(config) ==
    HexOfHash(config.name \o <<"|">>
              \o InputsText(config.inputs, Len(config.inputs)) \o <<"|">>
              \o StepsText(config.steps, Len(config.steps)))

\* JsonConfigParser::parse_string: a key that is absent leaves the member
\* default-constructed; the fingerprint is computed last.
parse_string(j) ==
    LET config ==
            [name |-> IF "name" \in j.keys THEN j.name ELSE <<>>,
             inputs |-> IF "inputs" \in j.keys
                        THEN parse_io_fields(j.inputs) ELSE <<>>,
             outputs |-> IF "outputs" \in j.keys
                         THEN parse_io_fields(j.outputs) ELSE <<>>,
             variables |-> IF "variables" \in j.keys
                           THEN parse_io_fields(j.variables) ELSE <<>>,
             steps |-> IF "steps" \in j.keys THEN parse_steps(j.steps) ELSE <<>>]
    IN  [name |-> config.name, inputs |-> config.inputs,
         outputs |-> config.outputs, variables |-> config.variables,
         steps |-> config.steps,
         fingerprint |-> PipelineConfig_compute_fingerprint(config)]

\* JsonConfigParser::validate
validate(config) ==
    /\ config.name # <<>>
    /\ \A i \in 1..Len(config.steps) :
          /\ config.steps[i].op_name # <<>>
          /\ config.steps[i].output_var # <<>>

\* ConfigGenerator::generate_json: name, inputs, variables and steps; a
\* variable argument is written as "$" + value, any other as its value.
generate_json(config) ==
    LET field(f) == [name |-> f.name, type |-> data_type_to_string(f.type),
                     required |-> f.required]
    IN  [keys |-> {"name", "inputs", "variables", "steps"},
         name |-> config.name,
         inputs |-> [i \in 1..Len(config.inputs) |-> field(config.inputs[i])],
         variables |-> [i \in 1..Len(config.variables) |->
                            field(config.variables[i])],
         outputs |-> <<>>,
         steps |-> [i \in 1..Len(config.steps) |->
                      [op |-> config.steps[i].op_name,
                       output |-> config.steps[i].output_var,
                       args |-> [k \in 1..Len(config.steps[i].args) |->
                                   IF config.steps[i].args[k].type = "VARIABLE"
                                   THEN <<"$">> \o config.steps[i].args[k].value
                                   ELSE config.steps[i].args[k].value]]]]

\* PipelineManager::create_from_file on a file holding document j:
\* "rejected" is the std::runtime_error("Invalid config"), "executor" the
\* executor PipelineManager::create returns.
create_from_file(j) ==
    IF ~validate(parse_string(j)) THEN "rejected" ELSE "executor"

-----------------------------------------------------------------------------
(* SpecConfig: a document written by hand goes through parse_string and    *)
(* create_from_file; a config built in code goes through generate_json     *)
(* first                                                                   *)

\* Pipeline names, operator names and output names: empty or not.
NameTexts == {<<>>, <<"p">>}
OpTexts == {<<>>, <<"a", "d", "d">>}
OutputTexts == {<<>>, <<"r">>}

\* Type texts of a declared field: two known ones and one that is none.
TypeTexts == {<<"d", "o", "u", "b", "l", "e">>, <<"i", "n", "t", "3", "2">>, <<"b", "o", "g", "u", "s">>}

\* Argument texts: numbers, a name, texts that begin with "$", the empty
\* text, and a number followed by a letter.
ArgTexts ==
    {<<"1">>, <<"-", "2">>, <<"1", ".", "5">>, <<"x">>, <<"$", "x">>, <<"$">>,
     <<>>, <<"1", "x">>}

\* Argument lists of the step: the input and a number, a name that nothing
\* defines and a number, the input alone.
ArgLists ==
    {<<<<"$", "x">>, <<"1">>>>, <<<<"$", "u">>, <<"1">>>>, <<<<"$", "x">>>>}

\* The documents written by hand: one input, one step over it.
Documents ==
    {[keys |-> ks, name |-> n,
      inputs |-> <<[name |-> <<"x">>, type |-> t, required |-> TRUE]>>,
      variables |-> <<>>,
      outputs |-> <<[name |-> <<"r">>, type |-> <<"d", "o", "u", "b", "l", "e">>, required |-> FALSE]>>,
      steps |-> <<[op |-> op, output |-> out, args |-> as]>>] :
        ks \in {{"name", "inputs", "variables", "outputs", "steps"},
                {"inputs", "variables", "outputs", "steps"}},
        n \in NameTexts, t \in TypeTexts, op \in OpTexts, out \in OutputTexts,
        as \in ArgLists}

\* The configs built in code: one input, one step with one argument that
\* is a variable reference or a literal of any of the texts.
HandBuilt ==
    {[name |-> <<"p">>,
      inputs |-> <<IOField(<<"x">>, t, TRUE)>>,
      variables |-> <<>>,
      outputs |-> <<IOField(<<"r">>, "DOUBLE", FALSE)>>,
      steps |-> <<OpCall(<<"a", "d", "d">>, <<"r">>, <<a, ArgLiteral(<<"1">>, "INT32")>>)>>] :
        t \in {"DOUBLE", "INT32", "UNKNOWN"},
        a \in {ArgVariable(<<"x">>, "DOUBLE"), ArgVariable(<<>>, "DOUBLE")}
              \cup {ArgLiteral(s, "STRING") : s \in ArgTexts}}

CfgInit ==
    /\ \/ hand \in HandBuilt /\ jdoc = <<>>
       \/ hand = <<>> /\ jdoc \in Documents
    /\ pcfg = <<>>
    /\ made = "none"

\* ConfigGenerator::generate_json(hand)
CfgGenerateJson ==
    /\ hand # <<>>
    /\ jdoc = <<>>
    /\ jdoc' = generate_json(hand)
    /\ UNCHANGED <<hand, pcfg, made>>
    /\ UNCHANGED CfgRest

\* JsonConfigParser::parse_string(jdoc)
CfgParseString ==
    /\ jdoc # <<>>
    /\ pcfg = <<>>
    /\ pcfg' = parse_string(jdoc)
    /\ UNCHANGED <<hand, jdoc, made>>
    /\ UNCHANGED CfgRest

\* PipelineManager::create_from_file on the file holding jdoc
CfgCreateFromFile ==
    /\ jdoc # <<>>
    /\ made = "none"
    /\ made' = create_from_file(jdoc)
    /\ UNCHANGED <<hand, jdoc, pcfg>>
    /\ UNCHANGED CfgRest

CfgNext == CfgGenerateJson \/ CfgParseString \/ CfgCreateFromFile

-----------------------------------------------------------------------------
(* The OS loader *)

\* The most dlopen calls that succeed in one behaviour.
MaxOpens == 3

\* dlopen succeeded: a new handle, open.
dlopen(o, who, path) ==
    Append(o, [opener |-> who, path |-> path, closes |-> 0])

dlclose(o, h) == [o EXCEPT ![h].closes = @ + 1]

IsOpen(o, h) == h \in 1..Len(o) /\ o[h].closes = 0

-----------------------------------------------------------------------------
(* DllLoader: handle_ and path_.  A path is a tuple of its parts, <<>> the  *)
(* empty string.                                                           *)

NewDllLoader == [handle |-> 0, path |-> <<>>]

\* DllLoader::unload
DllLoader_unload(l, o) ==
    [l |-> [handle |-> 0, path |-> <<>>],
     os |-> IF l.handle # 0 THEN dlclose(o, l.handle) ELSE o]

\* DllLoader::load; opened says whether dlopen succeeds.
DllLoader_load(l, path, opened, who, o) ==
    LET u == IF l.handle # 0 THEN DllLoader_unload(l, o)
             ELSE [l |-> l, os |-> o]
    IN  IF opened
        THEN [ret |-> TRUE,
              l |-> [handle |-> Len(u.os) + 1, path |-> path],
              os |-> dlopen(u.os, who, path)]
        ELSE [ret |-> FALSE,
              l |-> [u.l EXCEPT !.handle = 0],
              os |-> u.os]

\* A move that leaves the source's handle_ in place.
DllLoader_moved_from_keeps_handle(other) == [other EXCEPT !.path = <<>>]

\* What a move leaves in the source: handle_ = nullptr, and path_ moved
\* from (empty, as the standard libraries in use leave it).
DllLoader_moved_from(other) == [handle |-> 0, path |-> <<>>]

\* DllLoader(DllLoader&& other): the new object.
DllLoader_move_construct(other) == [handle |-> other.handle, path |-> other.path]

\* operator=(DllLoader&& other) for this # &other: the assigned object and
\* the OS state after unload().
DllLoader_move_assign(l, other, o) ==
    [l |-> [handle |-> other.handle, path |-> other.path],
     os |-> DllLoader_unload(l, o).os]

-----------------------------------------------------------------------------
(* SpecDll: DllLoader objects of a caller *)

DllIds == {"d1", "d2", "d3"}

\* Library files a caller may name.
DllPaths == {<<"a.so">>, <<"b.so">>}

OsInit == os = <<>>

DllInit == dll = [i \in DllIds |-> [st |-> "none", handle |-> 0, path |-> <<>>]]

Alive(i) == dll[i].st = "alive"

DllState(i) == [handle |-> dll[i].handle, path |-> dll[i].path]

DllWith(i, l) == [st |-> "alive", handle |-> l.handle, path |-> l.path]

\* DllLoader() = default
DllConstruct(i) ==
    /\ dll[i].st = "none"
    /\ dll' = [dll EXCEPT ![i] = DllWith(i, NewDllLoader)]
    /\ UNCHANGED os
    /\ UNCHANGED DllRest

\* load(path)
DllLoad(i, path, opened) ==
    /\ Alive(i)
    /\ opened => Len(os) < MaxOpens
    /\ LET r == DllLoader_load(DllState(i), path, opened, i, os)
       IN  /\ dll' = [dll EXCEPT ![i] = DllWith(i, r.l)]
           /\ os' = r.os
    /\ UNCHANGED DllRest

\* unload()
DllUnload(i) ==
    /\ Alive(i)
    /\ LET r == DllLoader_unload(DllState(i), os)
       IN  /\ dll' = [dll EXCEPT ![i] = DllWith(i, r.l)]
           /\ os' = r.os
    /\ UNCHANGED DllRest

\* DllLoader i(std::move(j))
DllMoveConstruct(i, j) ==
    /\ dll[i].st = "none"
    /\ Alive(j)
    /\ dll' = [dll EXCEPT ![i] = DllWith(i, DllLoader_move_construct(DllState(j))),
                          ![j] = DllWith(j, DllLoader_moved_from(DllState(j)))]
    /\ UNCHANGED os
    /\ UNCHANGED DllRest

\* i = std::move(j), j possibly i itself
DllMoveAssign(i, j) ==
    /\ Alive(i)
    /\ Alive(j)
    /\ IF i = j
       THEN UNCHANGED <<dll, os>>
       ELSE LET r == DllLoader_move_assign(DllState(i), DllState(j), os)
            IN  /\ dll' = [dll EXCEPT ![i] = DllWith(i, r.l),
                                      ![j] = DllWith(j, DllLoader_moved_from(DllState(j)))]
                /\ os' = r.os
    /\ UNCHANGED DllRest

\* ~DllLoader()
DllDestroy(i) ==
    /\ Alive(i)
    /\ LET r == DllLoader_unload(DllState(i), os)
       IN  /\ dll' = [dll EXCEPT ![i] = [st |-> "destroyed", handle |-> 0, path |-> <<>>]]
           /\ os' = r.os
    /\ UNCHANGED DllRest

DllNext ==
    \/ \E i \in DllIds : DllConstruct(i)
    \/ \E i \in DllIds, path \in DllPaths, opened \in BOOLEAN : DllLoad(i, path, opened)
    \/ \E i \in DllIds : DllUnload(i)
    \/ \E i, j \in DllIds : DllMoveConstruct(i, j)
    \/ \E i, j \in DllIds : DllMoveAssign(i, j)
    \/ \E i \in DllIds : DllDestroy(i)

-----------------------------------------------------------------------------
(* Maps with a growing key set (std::unordered_map) *)

MapPut(m, k, v) == [x \in DOMAIN m \cup {k} |-> IF x = k THEN v ELSE m[x]]
MapErase(m, k) == [x \in DOMAIN m \ {k} |-> m[x]]
EmptyMap == <<>>

-----------------------------------------------------------------------------
(* Configs of the runtime machines, their fingerprints, their artifacts *)

\* The pipelines: the demo, and the demo with sub for add in step 1.
ConfigIds == {"demo", "demo_sub"}

\* The pipeline the executors and the LoadManager of Spec are given.
RtConfigIds == {"demo"}

\* std::hash of the fingerprint text, one value per pipeline (the hash is
\* implementation-defined; distinct texts are given distinct values).
HashValue == [demo |-> 26, demo_sub |-> 171]

\* PipelineConfig::compute_fingerprint: the hex image of the hash.
compute_fingerprint(id) == ToHex(HashValue[id])

Fingerprints == {compute_fingerprint(id) : id \in ConfigIds}

RtFingerprints == {compute_fingerprint(id) : id \in RtConfigIds}

\* JITCompiler::get_cache_path with cache_dir_ = "./generated"
get_cache_path(fingerprint) ==
    <<"./generated", "/libpipeline_", fingerprint, ".so">>

\* so_path + ".cpp"
SourcePathOf(so_path) == Append(so_path, ".cpp")

\* make_valid_identifier of loader.cpp
make_valid_identifier_loader(str) ==
    IF str = <<>> THEN <<"p", "_", "i", "n", "v", "a", "l", "i", "d">>
    ELSE LET result == IF isdigit(str[1]) THEN <<"p", "_">> \o str ELSE str
         IN  [i \in 1..Len(result) |->
                IF ~isalnum(result[i]) /\ result[i] # "_"
                THEN "_" ELSE result[i]]

\* The shared object CodeGenerator::generate and the compiler make of a
\* config: the symbols it exports and what pipeline_name() returns.
Artifact(id, fingerprint) ==
    [kind |-> "so",
     entry |-> EntrySymbol(fingerprint),
     name |-> id]

\* "pipeline_execute"
GenericEntry ==
    <<"p", "i", "p", "e", "l", "i", "n", "e", "_",
      "e", "x", "e", "c", "u", "t", "e">>

file_exists(d, path) == path \in DOMAIN d

-----------------------------------------------------------------------------
(* PipelineLoader *)

NewPipelineLoader ==
    [loaders |-> EmptyMap, functions |-> EmptyMap, names |-> EmptyMap]

\* dlclose of every handle of hs.
CloseAll(o, hs) ==
    [h \in 1..Len(o) |-> IF h \in hs THEN dlclose(o, h)[h] ELSE o[h]]

\* The three lookups of the entry, in order; <<>> when none is exported.
ResolveEntry(lib, sanitised, fingerprint) ==
    IF lib.entry = PipelineExecutePrefix \o sanitised
    THEN PipelineExecutePrefix \o sanitised
    ELSE IF lib.entry = PipelineExecutePrefix \o fingerprint
         THEN PipelineExecutePrefix \o fingerprint
         ELSE IF lib.entry = GenericEntry THEN GenericEntry ELSE <<>>

\* A load that opens the library again without looking at the path.
PipelineLoader_load_reopen(p, fingerprint, so_path, opened, who, o, d) ==
    LET loader == DllLoader_load(NewDllLoader, so_path, opened, who, o)
    IN  IF ~loader.ret
        THEN [ret |-> FALSE, pl |-> p, os |-> loader.os, dlopens |-> 1]
        ELSE LET old == IF fingerprint \in DOMAIN p.loaders
                        THEN p.loaders[fingerprint] ELSE NewDllLoader
                 stored == DllLoader_move_assign(old, loader.l, loader.os)
             IN  [ret |-> TRUE,
                  pl |-> [loaders |-> MapPut(p.loaders, fingerprint, stored.l),
                          functions |-> MapPut(p.functions, fingerprint,
                                [handle |-> loader.l.handle, sym |-> d[so_path].entry]),
                          names |-> MapPut(p.names, fingerprint, d[so_path].name)],
                  os |-> stored.os,
                  dlopens |-> 1]

\* PipelineLoader::load.  opened says whether dlopen succeeds; dlopens
\* counts the calls of dlopen.
PipelineLoader_load(p, fingerprint, so_path, opened, who, o, d) ==
    IF fingerprint \in DOMAIN p.loaders /\ p.loaders[fingerprint].path = so_path
    THEN [ret |-> TRUE, pl |-> p, os |-> o, dlopens |-> 0]
    ELSE
    LET known == fingerprint \in DOMAIN p.loaders
        \* it->second.unload()
        u == IF known THEN DllLoader_unload(p.loaders[fingerprint], o)
             ELSE [l |-> NewDllLoader, os |-> o]
        p1 == IF known
              THEN [p EXCEPT !.loaders = MapPut(p.loaders, fingerprint, u.l)]
              ELSE p
        loader == DllLoader_load(NewDllLoader, so_path, opened, who, u.os)
    IN  IF ~loader.ret
        THEN [ret |-> FALSE, pl |-> p1, os |-> loader.os, dlopens |-> 1]
        ELSE
        LET exec_func == ResolveEntry(d[so_path],
                                      make_valid_identifier_loader(fingerprint),
                                      fingerprint)
        IN  IF exec_func = <<>>
            THEN \* return false; ~DllLoader() closes the local loader
                 [ret |-> FALSE, pl |-> p1,
                  os |-> DllLoader_unload(loader.l, loader.os).os,
                  dlopens |-> 1]
            ELSE
            LET old == IF known THEN u.l ELSE NewDllLoader
                \* loaders_[fingerprint] = std::move(loader)
                stored == DllLoader_move_assign(old, loader.l, loader.os)
                \* ~DllLoader() of the moved-from local
                local == DllLoader_unload(DllLoader_moved_from(loader.l), stored.os)
            IN  [ret |-> TRUE,
                 pl |-> [loaders |-> MapPut(p1.loaders, fingerprint, stored.l),
                         functions |-> MapPut(p1.functions, fingerprint,
                                [handle |-> loader.l.handle, sym |-> exec_func]),
                         names |-> MapPut(p1.names, fingerprint, d[so_path].name)],
                 os |-> local.os,
                 dlopens |-> 1]

\* PipelineLoader::unload: the erased DllLoader is destroyed.
PipelineLoader_unload(p, fingerprint, o) ==
    [pl |-> [loaders |-> MapErase(p.loaders, fingerprint),
             functions |-> MapErase(p.functions, fingerprint),
             names |-> MapErase(p.names, fingerprint)],
     os |-> IF fingerprint \in DOMAIN p.loaders
            THEN DllLoader_unload(p.loaders[fingerprint], o).os ELSE o]

\* An unload_all that forgets the entry functions and keeps the libraries.
PipelineLoader_unload_all_leak(p, o) ==
    [pl |-> [p EXCEPT !.functions = EmptyMap, !.names = EmptyMap], os |-> o]

\* PipelineLoader::unload_all
PipelineLoader_unload_all(p, o) ==
    [pl |-> NewPipelineLoader,
     os |-> CloseAll(o, {p.loaders[f].handle : f \in DOMAIN p.loaders} \ {0})]

\* PipelineLoader::is_loaded
PipelineLoader_is_loaded(p, fingerprint) == fingerprint \in DOMAIN p.functions

\* PipelineLoader::loaded_count
PipelineLoader_loaded_count(p) == Cardinality(DOMAIN p.functions)

-----------------------------------------------------------------------------
(* JITCompiler and its CompilationCache *)

\* What one run of JITCompiler::compile meets: the directory cannot be made,
\* the source cannot be written, the native compiler fails, or all succeed.
CompileOutcomes == {"mkdir_fail", "write_fail", "cc_fail", "ok"}

NoPath == <<>>

\* JITCompiler::get_so_path over CompilationCache::get; NoPath is nullopt.
JITCompiler_get_so_path(c, d, fingerprint) ==
    IF fingerprint \in DOMAIN c /\ file_exists(d, c[fingerprint].so_path)
    THEN c[fingerprint].so_path ELSE NoPath

\* CompilationCache::is_valid
CompilationCache_is_valid(c, d, fingerprint) ==
    /\ fingerprint \in DOMAIN c
    /\ file_exists(d, c[fingerprint].so_path)
    /\ file_exists(d, c[fingerprint].source_path)

\* JITCompiler::clear_cache: the in-memory entries only.
JITCompiler_clear_cache(c) == EmptyMap

\* JITCompiler::compile of config id whose fingerprint field is set.
JITCompiler_compile(c, d, id, fingerprint, outcome) ==
    LET so_path == get_cache_path(fingerprint)
        source_path == SourcePathOf(so_path)
        src == [kind |-> "cpp", entry |-> <<>>, name |-> id]
        d1 == IF outcome \in {"cc_fail", "ok"}
              THEN MapPut(d, source_path, src) ELSE d
    IN  IF outcome = "ok"
        THEN [ret |-> TRUE,
              cache |-> MapPut(c, fingerprint,
                               [fingerprint |-> fingerprint,
                                source_path |-> source_path,
                                so_path |-> so_path]),
              disk |-> MapPut(d1, so_path, Artifact(id, fingerprint))]
        ELSE [ret |-> FALSE, cache |-> c, disk |-> d1]

\* std::hash of the text JITCompiler::compile builds itself when the
\* fingerprint field is empty: name and steps, without the inputs, so
\* another text than compute_fingerprint hashes.
DerivedHashValue == [demo |-> 77, demo_sub |-> 201]

derive_fingerprint(id) == ToHex(DerivedHashValue[id])

\* The source text CodeGenerator::generate returns: the entry it exports.
GeneratedCode(id, config_fingerprint) ==
    [kind |-> "cpp", entry |-> EntrySymbol(config_fingerprint), name |-> id]

\* The shared object the native compiler makes of a source text.
CompiledFrom(code) == [kind |-> "so", entry |-> code.entry, name |-> code.name]

\* A compile that enters the cache before the native compiler has run.
JITCompiler_compile_config_eager(c, d, id, config_fingerprint, keep_source, outcome) ==
    LET code == GeneratedCode(id, config_fingerprint)
        fingerprint == IF config_fingerprint = <<>>
                       THEN derive_fingerprint(id) ELSE config_fingerprint
        so_path == get_cache_path(fingerprint)
        source_path == SourcePathOf(so_path)
        entry == [fingerprint |-> fingerprint, source_path |-> source_path,
                  so_path |-> so_path]
    IN  CASE outcome = "mkdir_fail" ->
                [ret |-> FALSE, cache |-> c, disk |-> d, key |-> fingerprint]
          [] outcome = "write_fail" ->
                [ret |-> FALSE, cache |-> c, disk |-> d, key |-> fingerprint]
          [] outcome = "cc_fail" ->
                [ret |-> FALSE, cache |-> MapPut(c, fingerprint, entry),
                 disk |-> MapPut(d, source_path, code), key |-> fingerprint]
          [] outcome = "ok" ->
                [ret |-> TRUE, cache |-> MapPut(c, fingerprint, entry),
                 disk |-> MapPut(MapPut(d, source_path, code),
                                 so_path, CompiledFrom(code)),
                 key |-> fingerprint]

\* JITCompiler::compile of config id, whose fingerprint field may be empty:
\* the code is generated first, then the fingerprint is taken or derived,
\* then the directory, the source file and the compiler run follow.  key is
\* the fingerprint the rest of the function works with.
JITCompiler_compile_config(c, d, id, config_fingerprint, keep_source, outcome) ==
    LET code == GeneratedCode(id, config_fingerprint)
        fingerprint == IF config_fingerprint = <<>>
                       THEN derive_fingerprint(id) ELSE config_fingerprint
        so_path == get_cache_path(fingerprint)
        source_path == SourcePathOf(so_path)
        entry == [fingerprint |-> fingerprint, source_path |-> source_path,
                  so_path |-> so_path]
    IN  CASE outcome = "mkdir_fail" ->
                [ret |-> FALSE, cache |-> c, disk |-> d, key |-> fingerprint]
          [] outcome = "write_fail" ->
                [ret |-> FALSE, cache |-> c, disk |-> d, key |-> fingerprint]
          [] outcome = "cc_fail" ->
                [ret |-> FALSE, cache |-> c,
                 disk |-> IF keep_source THEN MapPut(d, source_path, code)
                          ELSE MapErase(d, source_path),
                 key |-> fingerprint]
          [] outcome = "ok" ->
                [ret |-> TRUE, cache |-> MapPut(c, fingerprint, entry),
                 disk |-> MapPut(MapPut(d, source_path, code),
                                 so_path, CompiledFrom(code)),
                 key |-> fingerprint]

-----------------------------------------------------------------------------
(* SpecCache: JITCompiler and its cache called directly, and the files of  *)
(* the cache directory removed from outside                                *)

\* The fingerprint fields compile is given: computed, or left empty.
GivenFingerprints == RtFingerprints \cup {<<>>}

\* The keys the cache can hold for the configs compiled here.
CacheKeys == RtFingerprints \cup {derive_fingerprint(id) : id \in RtConfigIds}

NoCcCall ==
    [op |-> "none", given |-> <<>>, key |-> <<>>, outcome |-> "", ret |-> FALSE,
     before |-> EmptyMap, emitted |-> <<>>]

CcInit ==
    /\ cache = EmptyMap
    /\ disk = EmptyMap
    /\ ccLast = NoCcCall

\* JITCompiler::compile(config, gen_options, comp_options)
CcCompile(id, given, keep_source, outcome) ==
    /\ given \in {<<>>, compute_fingerprint(id)}
    /\ \E r \in {JITCompiler_compile_config(cache, disk, id, given,
                                            keep_source, outcome)} :
          /\ cache' = r.cache
          /\ disk' = r.disk
          /\ ccLast' = [op |-> "compile", given |-> given, key |-> r.key,
                        outcome |-> outcome, ret |-> r.ret, before |-> cache,
                        emitted |-> IF outcome \in {"cc_fail", "ok"}
                                    THEN GeneratedCode(id, given).entry
                                    ELSE <<>>]
    /\ UNCHANGED CcRest

\* CompilationCache::is_valid(fingerprint)
CcIsValid(fingerprint) ==
    /\ ccLast' = [NoCcCall EXCEPT !.op = "is_valid", !.key = fingerprint,
                                 !.ret = CompilationCache_is_valid(cache, disk,
                                                                   fingerprint),
                                 !.before = cache]
    /\ UNCHANGED <<cache, disk>>
    /\ UNCHANGED CcRest

\* JITCompiler::clear_cache
CcClearCache ==
    /\ cache # EmptyMap
    /\ cache' = JITCompiler_clear_cache(cache)
    /\ ccLast' = [NoCcCall EXCEPT !.op = "clear_cache", !.before = cache]
    /\ UNCHANGED disk
    /\ UNCHANGED CcRest

\* A file of the cache directory is removed by someone else.
CcFileRemoved(path) ==
    /\ file_exists(disk, path)
    /\ disk' = MapErase(disk, path)
    /\ ccLast' = NoCcCall
    /\ UNCHANGED cache
    /\ UNCHANGED CcRest

CcCompileAny ==
    \E id \in RtConfigIds, given \in GivenFingerprints, keep_source \in BOOLEAN,
       outcome \in CompileOutcomes : CcCompile(id, given, keep_source, outcome)

CcIsValidAny == \E fingerprint \in CacheKeys : CcIsValid(fingerprint)

CcFileRemovedAny ==
    \E fingerprint \in CacheKeys :
        \/ CcFileRemoved(get_cache_path(fingerprint))
        \/ CcFileRemoved(SourcePathOf(get_cache_path(fingerprint)))

CcNext == CcCompileAny \/ CcIsValidAny \/ CcClearCache \/ CcFileRemovedAny

-----------------------------------------------------------------------------
(* JITExecutor *)

\* JITExecutor(config): so_handle_ = nullptr, execute_func_ = nullptr,
\* needs_recompile_ = true; the fingerprint is computed when empty.
NewJITExecutor(id) ==
    [st |-> "alive", cfg |-> id, fingerprint |-> compute_fingerprint(id),
     so_handle |-> 0, execute_func |-> <<>>, needs_recompile |-> TRUE]

NoExecutor ==
    [st |-> "none", cfg |-> "demo", fingerprint |-> <<>>,
     so_handle |-> 0, execute_func |-> <<>>, needs_recompile |-> TRUE]

\* JITExecutor::unload_so
JITExecutor_unload_so(x, o) ==
    IF x.so_handle # 0
    THEN [ex |-> [x EXCEPT !.so_handle = 0, !.execute_func = <<>>],
          os |-> dlclose(o, x.so_handle)]
    ELSE [ex |-> x, os |-> o]

\* A recompile that leaves needs_recompile_ set whatever the compile returns.
JITExecutor_recompile_keeps(x, c, d, o, outcome) ==
    LET u == JITExecutor_unload_so(x, o)
        comp == JITCompiler_compile(c, d, x.cfg, x.fingerprint, outcome)
    IN  [ex |-> u.ex,
         cache |-> comp.cache, disk |-> comp.disk, os |-> u.os,
         outcomes |-> <<outcome>>]

\* JITExecutor::recompile
JITExecutor_recompile(x, c, d, o, outcome) ==
    LET u == JITExecutor_unload_so(x, o)
        comp == JITCompiler_compile(c, d, x.cfg, x.fingerprint, outcome)
    IN  [ex |-> IF comp.ret THEN [u.ex EXCEPT !.needs_recompile = FALSE]
                ELSE u.ex,
         cache |-> comp.cache, disk |-> comp.disk, os |-> u.os,
         outcomes |-> <<outcome>>]

\* JITExecutor::load_so.  outcome is what a compile meets if one is run,
\* opened whether dlopen succeeds if it is called.
JITExecutor_load_so(x, c, d, o, outcome, opened, who) ==
    IF x.so_handle # 0
    THEN [ret |-> TRUE, ex |-> x, cache |-> c, disk |-> d, os |-> o,
          outcomes |-> <<>>, dlopens |-> 0]
    ELSE
    LET miss == JITCompiler_get_so_path(c, d, x.fingerprint) = NoPath
        comp == IF miss
                THEN JITCompiler_compile(c, d, x.cfg, x.fingerprint, outcome)
                ELSE [ret |-> TRUE, cache |-> c, disk |-> d]
        outcomes == IF miss THEN <<outcome>> ELSE <<>>
        so_path == JITCompiler_get_so_path(comp.cache, comp.disk, x.fingerprint)
    IN  IF ~comp.ret \/ so_path = NoPath
        THEN [ret |-> FALSE, ex |-> x, cache |-> comp.cache,
              disk |-> comp.disk, os |-> o,
              outcomes |-> outcomes, dlopens |-> 0]
        ELSE IF ~opened
        THEN [ret |-> FALSE, ex |-> x, cache |-> comp.cache,
              disk |-> comp.disk, os |-> o,
              outcomes |-> outcomes, dlopens |-> 1]
        ELSE
        LET o1 == dlopen(o, who, so_path)
            h == Len(o1)
            func == ResolveEntry(comp.disk[so_path],
                                 make_valid_identifier(x.fingerprint),
                                 x.fingerprint)
        IN  IF func = <<>>
            THEN [ret |-> FALSE, ex |-> x, cache |-> comp.cache,
                  disk |-> comp.disk, os |-> dlclose(o1, h),
                  outcomes |-> outcomes, dlopens |-> 1]
            ELSE [ret |-> TRUE,
                  ex |-> [x EXCEPT !.so_handle = h, !.execute_func = func],
                  cache |-> comp.cache, disk |-> comp.disk, os |-> o1,
                  outcomes |-> outcomes, dlopens |-> 1]

\* The end of execute: l is what load_so() returned after r, the state
\* recompile() left; the entry is called when execute_func_ is set.
execute_call(r, l) ==
    [ret |-> l.ret /\ l.ex.execute_func # <<>>,
     called |-> l.ret /\ l.ex.execute_func # <<>>,
     ex |-> l.ex, cache |-> l.cache, disk |-> l.disk, os |-> l.os,
     outcomes |-> r.outcomes \o l.outcomes, dlopens |-> l.dlopens]

\* execute from load_so() on, in the state r.
execute_load(r, oc2, opened, who) ==
    execute_call(r, JITExecutor_load_so(r.ex, r.cache, r.disk, r.os,
                                        oc2, opened, who))

\* JITExecutor::execute as far as the runtime state goes: recompile() when
\* needs_recompile_, load_so(), then the call of execute_func_.
JITExecutor_execute(x, c, d, o, oc1, oc2, opened, who) ==
    execute_load(IF x.needs_recompile
                 THEN JITExecutor_recompile(x, c, d, o, oc1)
                 ELSE [ex |-> x, cache |-> c, disk |-> d, os |-> o,
                       outcomes |-> <<>>],
                 oc2, opened, who)

-----------------------------------------------------------------------------
(* LoadManager: a PipelineLoader fed by the JITCompiler *)

\* LoadManager::load_pipeline of a config whose fingerprint field is set.
LoadManager_load_pipeline(p, c, d, o, id, outcome, opened) ==
    LET fingerprint == compute_fingerprint(id)
    IN  IF PipelineLoader_is_loaded(p, fingerprint)
        THEN [ret |-> TRUE, pl |-> p, cache |-> c, disk |-> d, os |-> o,
              outcomes |-> <<>>, dlopens |-> 0]
        ELSE
        LET miss == JITCompiler_get_so_path(c, d, fingerprint) = NoPath
            comp == IF miss
                    THEN JITCompiler_compile(c, d, id, fingerprint, outcome)
                    ELSE [ret |-> TRUE, cache |-> c, disk |-> d]
            outcomes == IF miss THEN <<outcome>> ELSE <<>>
            so_path == JITCompiler_get_so_path(comp.cache, comp.disk, fingerprint)
        IN  IF ~comp.ret \/ so_path = NoPath
            THEN [ret |-> FALSE, pl |-> p, cache |-> comp.cache,
                  disk |-> comp.disk, os |-> o,
                  outcomes |-> outcomes, dlopens |-> 0]
            ELSE LET l == PipelineLoader_load(p, fingerprint, so_path, opened,
                                              "lm", o, comp.disk)
                 IN  [ret |-> l.ret, pl |-> l.pl, cache |-> comp.cache,
                      disk |-> comp.disk, os |-> l.os,
                      outcomes |-> outcomes, dlopens |-> l.dlopens]

-----------------------------------------------------------------------------
(* SpecLoader: a PipelineLoader of a caller, over library files on disk *)

\* The library files: the demo's artifact at its cache path and as a copy
\* elsewhere, and a library that exports no entry.
LoaderPaths ==
    {get_cache_path(compute_fingerprint("demo")), <<"./copy.so">>, <<"./other.so">>}

LoaderDisk ==
    [path \in LoaderPaths |->
        IF path = <<"./other.so">>
        THEN [kind |-> "so", entry |-> <<"m", "a", "i", "n">>, name |-> "other"]
        ELSE Artifact("demo", compute_fingerprint("demo"))]

\* The record of a call: what was asked, what came back, how often dlopen
\* was called, whether the fingerprint was loaded from the same path before,
\* and whether an entry of a closed library was called.
PlCall(op, fingerprint, path, ret, dlopens, same, dangling) ==
    [op |-> op, fingerprint |-> fingerprint, path |-> path, ret |-> ret,
     dlopens |-> dlopens, same |-> same, dangling |-> dangling]

NoPlCall == PlCall("none", <<>>, <<>>, FALSE, 0, FALSE, FALSE)

PlInit == pl = NewPipelineLoader /\ plLast = NoPlCall

\* load(fingerprint, so_path)
PlLoad(fingerprint, so_path, opened) ==
    /\ opened => Len(os) < MaxOpens
    /\ LET r == PipelineLoader_load(pl, fingerprint, so_path, opened, "pl", os, disk)
           same == /\ fingerprint \in DOMAIN pl.loaders
                   /\ pl.loaders[fingerprint].handle # 0
                   /\ pl.loaders[fingerprint].path = so_path
       IN  /\ pl' = r.pl
           /\ os' = r.os
           /\ plLast' = PlCall("load", fingerprint, so_path, r.ret, r.dlopens,
                               same, FALSE)
    /\ UNCHANGED PlRest

\* unload(fingerprint)
PlUnload(fingerprint) ==
    /\ LET r == PipelineLoader_unload(pl, fingerprint, os)
       IN  pl' = r.pl /\ os' = r.os
    /\ plLast' = PlCall("unload", fingerprint, <<>>, TRUE, 0, FALSE, FALSE)
    /\ UNCHANGED PlRest

\* unload_all()
PlUnloadAll ==
    /\ LET r == PipelineLoader_unload_all(pl, os)
       IN  pl' = r.pl /\ os' = r.os
    /\ plLast' = PlCall("unload_all", <<>>, <<>>, TRUE, 0, FALSE, FALSE)
    /\ UNCHANGED PlRest

\* execute(fingerprint, in, out): false when no function is recorded; the
\* call of an entry whose library is closed is undefined.
PlExecute(fingerprint) ==
    /\ UNCHANGED <<pl, os>>
    /\ IF ~PipelineLoader_is_loaded(pl, fingerprint)
       THEN plLast' = PlCall("execute", fingerprint, <<>>, FALSE, 0, FALSE, FALSE)
       ELSE LET dangling == ~IsOpen(os, pl.functions[fingerprint].handle)
            IN  \E ret \in IF dangling THEN BOOLEAN ELSE {TRUE} :
                    plLast' = PlCall("execute", fingerprint, <<>>, ret, 0,
                                     FALSE, dangling)
    /\ UNCHANGED PlRest

PlNext ==
    \/ \E f \in Fingerprints, path \in LoaderPaths, opened \in BOOLEAN :
            PlLoad(f, path, opened)
    \/ \E f \in Fingerprints : PlUnload(f)
    \/ PlUnloadAll
    \/ \E f \in Fingerprints : PlExecute(f)

-----------------------------------------------------------------------------
(* Spec: JITExecutor objects, the JITCompiler, the LoadManager and the     *)
(* PipelineManager of one process                                          *)

ExecutorIds == {"e1", "e2"}

\* The executor whose calls exHist follows; the other one is any other
\* executor of the process.
Observed == "e2"

\* Handles one process may be given while the model runs.
MaxRtOpens == 2

\* ctor: whether the cache held the fingerprint with its artifact when the
\* executor was built ("hit", "miss"), or "used" once a call was made.
\* last: the record of the last execute call, if any.  prev: of the call
\* before it, if any, what a later call can depend on.
NoHistory == [ctor |-> "used", prev |-> <<>>, last |-> <<>>]

Count(seq, S) == Cardinality({i \in 1..Len(seq) : seq[i] \in S})

RtInit ==
    /\ cache = EmptyMap
    /\ ex = [e \in ExecutorIds |-> NoExecutor]
    /\ exHist = NoHistory

\* Of a call: the runs of the native compiler, whether every compile
\* succeeded and the call returned true, and the handle it left.
Summary(call) ==
    [cc |-> call.cc, good |-> call.clean /\ call.ret, handle |-> call.handle]

\* PipelineManager::create_jit(config): a new JITExecutor.  The history
\* notes whether the cache then held the fingerprint with its artifact.
Construct(e, id) ==
    /\ ex[e].st = "none"
    /\ ex' = [ex EXCEPT ![e] = NewJITExecutor(id)]
    /\ exHist' = IF e # Observed THEN exHist
                  ELSE [ctor |-> IF JITCompiler_get_so_path(cache, disk,
                                        compute_fingerprint(id)) # NoPath
                                 THEN "hit" ELSE "miss",
                        prev |-> <<>>, last |-> <<>>]
    /\ UNCHANGED <<cache, disk, os, plVars>>
    /\ UNCHANGED RtRest

\* What the history keeps of a call that found needs_recompile_ = needs
\* and returned r.  cached: the first call of an executor built and called
\* with the artifact in the cache; cc: runs of the native compiler; failed:
\* the compile of recompile() failed; clean: no compile failed.
CallRecord(needs, cached, r) ==
    [needs |-> needs,
     cached |-> cached,
     cc |-> Count(r.outcomes, {"cc_fail", "ok"}),
     failed |-> needs /\ r.outcomes[1] # "ok",
     clean |-> Count(r.outcomes, CompileOutcomes \ {"ok"}) = 0,
     dlopens |-> r.dlopens,
     called |-> r.called,
     ret |-> r.ret,
     handle |-> r.ex.so_handle]

\* execute(context)
Execute(e, oc1, oc2, opened) ==
    /\ ex[e].st = "alive"
    /\ opened => Len(os) < MaxRtOpens
    \* an input the call does not read is given one value only
    /\ ~ex[e].needs_recompile => oc1 = "ok"
    /\ \E r \in {JITExecutor_execute(ex[e], cache, disk, os, oc1, oc2, opened, e)} :
          /\ Len(r.outcomes) < (IF ex[e].needs_recompile THEN 2 ELSE 1)
                => oc2 = "ok"
          /\ r.dlopens = 0 => ~opened
          /\ ex' = [ex EXCEPT ![e] = r.ex]
          /\ cache' = r.cache
          /\ disk' = r.disk
          /\ os' = r.os
          /\ exHist' =
                IF e # Observed THEN exHist
                ELSE [ctor |-> "used",
                      prev |-> IF exHist.last = <<>> THEN <<>>
                               ELSE <<Summary(exHist.last[1])>>,
                      last |-> <<CallRecord(
                                  ex[e].needs_recompile,
                                  /\ exHist.ctor = "hit"
                                  /\ JITCompiler_get_so_path(cache, disk,
                                          ex[e].fingerprint) # NoPath,
                                  r)>>]
    /\ UNCHANGED plVars
    /\ UNCHANGED RtRest

\* recompile() called by the owner (as the benchmark does)
Recompile(e, outcome) ==
    /\ ex[e].st = "alive"
    /\ LET r == JITExecutor_recompile(ex[e], cache, disk, os, outcome)
       IN  /\ ex' = [ex EXCEPT ![e] = r.ex]
           /\ cache' = r.cache
           /\ disk' = r.disk
           /\ os' = r.os
    /\ exHist' = IF e # Observed THEN exHist ELSE NoHistory
    /\ UNCHANGED plVars
    /\ UNCHANGED RtRest

\* ~JITExecutor()
Destroy(e) ==
    /\ ex[e].st = "alive"
    /\ LET u == JITExecutor_unload_so(ex[e], os)
       IN  /\ ex' = [ex EXCEPT ![e] = [NoExecutor EXCEPT !.st = "dead"]]
           /\ os' = u.os
    /\ exHist' = IF e # Observed THEN exHist ELSE NoHistory
    /\ UNCHANGED <<cache, disk, plVars>>
    /\ UNCHANGED RtRest

\* LoadManager::load_pipeline(config).  Of the LoadManager's calls plLast
\* keeps only whether the last one was unload_all.
LMLoadPipeline(id, outcome, opened) ==
    /\ opened => Len(os) < MaxRtOpens
    /\ LET fingerprint == compute_fingerprint(id)
           r == LoadManager_load_pipeline(pl, cache, disk, os, id, outcome, opened)
       IN  /\ Len(r.outcomes) = 0 => outcome = "ok"
           /\ r.dlopens = 0 => ~opened
           /\ pl' = r.pl
           /\ cache' = r.cache
           /\ disk' = r.disk
           /\ os' = r.os
           /\ plLast' = NoPlCall
    /\ UNCHANGED <<ex, exHist>>
    /\ UNCHANGED RtRest

\* LoadManager::unload_pipeline(fingerprint)
LMUnloadPipeline(fingerprint) ==
    /\ LET r == PipelineLoader_unload(pl, fingerprint, os)
       IN  pl' = r.pl /\ os' = r.os
    /\ plLast' = NoPlCall
    /\ UNCHANGED <<cache, disk, ex, exHist>>
    /\ UNCHANGED RtRest

\* LoadManager::unload_all()
LMUnloadAll ==
    /\ LET r == PipelineLoader_unload_all(pl, os)
       IN  pl' = r.pl /\ os' = r.os
    /\ plLast' = PlCall("unload_all", <<>>, <<>>, TRUE, 0, FALSE, FALSE)
    /\ UNCHANGED <<cache, disk, ex, exHist>>
    /\ UNCHANGED RtRest

\* PipelineManager::clear_cache()
ClearCache ==
    /\ cache' = JITCompiler_clear_cache(cache)
    /\ LET r == PipelineLoader_unload_all(pl, os)
       IN  pl' = r.pl /\ os' = r.os
    /\ plLast' = PlCall("unload_all", <<>>, <<>>, TRUE, 0, FALSE, FALSE)
    /\ UNCHANGED <<disk, ex, exHist>>
    /\ UNCHANGED RtRest

RtNext ==
    \/ \E e \in ExecutorIds, id \in RtConfigIds : Construct(e, id)
    \/ \E e \in ExecutorIds, oc1 \in CompileOutcomes, oc2 \in CompileOutcomes,
          opened \in BOOLEAN : Execute(e, oc1, oc2, opened)
    \/ \E e \in ExecutorIds, outcome \in CompileOutcomes : Recompile(e, outcome)
    \/ \E e \in ExecutorIds : Destroy(e)
    \/ \E id \in RtConfigIds, outcome \in CompileOutcomes, opened \in BOOLEAN :
            LMLoadPipeline(id, outcome, opened)
    \/ \E f \in RtFingerprints : LMUnloadPipeline(f)
    \/ LMUnloadAll
    \/ ClearCache

-----------------------------------------------------------------------------
(* SpecGen: CodeGenerator::generate on two configs, one after the other *)

\* The units generated in one run are at most UnitsCompared.
UnitsCompared == 2

GenVariableLists ==
    {<<>>,
     <<IOField(<<"r">>, "DOUBLE", FALSE)>>,
     <<IOField(<<"r">>, "INT32", FALSE)>>,
     <<IOField(<<"x">>, "DOUBLE", FALSE)>>,
     <<IOField(<<"r">>, "DOUBLE", FALSE), IOField(<<"r">>, "DOUBLE", FALSE)>>}

GenOutputLists ==
    {<<IOField(<<"r">>, "DOUBLE", FALSE)>>,
     <<IOField(<<"r">>, "INT32", FALSE)>>,
     <<IOField(<<"r">>, "DOUBLE", FALSE), IOField(<<"x">>, "DOUBLE", FALSE)>>}

\* Configs with one step out = add(x, a): the fingerprint is the one
\* compute_fingerprint gives, as after parse_string or build.
GenConfigs ==
    {LET c == [name |-> <<"p">>,
               inputs |-> <<IOField(<<"x">>, "DOUBLE", TRUE), IOField(<<"y">>, ty, TRUE)>>,
               variables |-> vs,
               outputs |-> os_,
               steps |-> <<OpCall(<<"a", "d", "d">>, out,
                                  <<ArgVariable(<<"x">>, "DOUBLE"), a>>)>>]
     IN  [name |-> c.name, inputs |-> c.inputs, variables |-> c.variables,
          outputs |-> c.outputs, steps |-> c.steps,
          fingerprint |-> PipelineConfig_compute_fingerprint(c)] :
        ty \in {"DOUBLE", "INT32"}, vs \in GenVariableLists, os_ \in GenOutputLists,
        out \in {<<"r">>, <<"s">>},
        a \in {ArgVariable(<<"y">>, "DOUBLE"), ArgLiteral(<<"1">>, "INT32")}}

GenInit == gen = <<>>

\* CodeGenerator(config).generate()
GenGenerate ==
    /\ Len(gen) < UnitsCompared
    /\ \E c \in GenConfigs :
          gen' = Append(gen, [config |-> c, source |-> CodeGenerator_generate(c)])
    /\ UNCHANGED GenRest

GenNext == GenGenerate

-----------------------------------------------------------------------------
(* SpecThreads: two threads, each calling execute on its own JITExecutor;  *)
(* the two executors were built from one config, so they share the         *)
(* fingerprint, and JITCompiler::instance() with its cache_ is one object. *)
(* No function on these paths takes a lock.  A step is what one thread     *)
(* does between two accesses to what the threads share: the source file,   *)
(* the artifact, cache_.                                                   *)

Threads == {1, 2}

\* Each thread calls execute at most MaxExecs times.
MaxExecs == 2

\* Inside JITCompiler::compile: from the generated code to the end of
\* cache_.add.
CompileStages == {"generated", "written", "compiled", "adding"}

ThrInit ==
    thr = [th |-> [t \in Threads |->
                      [pc |-> "idle", via |-> "none", needs_recompile |-> TRUE,
                       so_handle |-> FALSE, calls |-> 0, last |-> "none"]],
           cache |-> FALSE, source |-> FALSE, artifact |-> FALSE]

\* The thread's executor leaves execute with the given result.
ThrReturn(t, ret) ==
    [thr.th[t] EXCEPT !.pc = "idle", !.via = "none",
                      !.calls = @ + 1, !.last = ret]

\* JITExecutor::execute begins: with needs_recompile_ set, recompile()
\* unloads the library and enters JITCompiler::compile, where the code is
\* generated; otherwise load_so() is next.
ThrExecute(t) ==
    /\ thr.th[t].pc = "idle"
    /\ thr.th[t].calls < MaxExecs
    /\ thr' = [thr EXCEPT !.th[t] =
                  IF @.needs_recompile
                  THEN [@ EXCEPT !.pc = "generated", !.via = "recompile",
                                 !.so_handle = FALSE]
                  ELSE [@ EXCEPT !.pc = "load_so"]]
    /\ UNCHANGED ThrRest

\* JITCompiler::compile: Compiler::write_file(source_path, code)
ThrWriteSource(t) ==
    /\ thr.th[t].pc = "generated"
    /\ thr' = [thr EXCEPT !.th[t].pc = "written", !.source = TRUE]
    /\ UNCHANGED ThrRest

\* JITCompiler::compile: Compiler::compile(source_path, so_path, options).
\* On failure compile returns false: recompile() leaves needs_recompile_
\* set and execute goes on to load_so(); load_so() returns false.
ThrRunCompiler(t, ok) ==
    /\ thr.th[t].pc = "written"
    /\ thr' = IF ok
              THEN [thr EXCEPT !.th[t].pc = "compiled", !.artifact = TRUE]
              ELSE IF thr.th[t].via = "recompile"
                   THEN [thr EXCEPT !.th[t].pc = "load_so", !.th[t].via = "none"]
                   ELSE [thr EXCEPT !.th[t] = ThrReturn(t, "false")]
    /\ UNCHANGED ThrRest

\* JITCompiler::compile: cache_.add(fingerprint, entry) begins.
ThrCacheAddBegin(t) ==
    /\ thr.th[t].pc = "compiled"
    /\ thr' = [thr EXCEPT !.th[t].pc = "adding"]
    /\ UNCHANGED ThrRest

\* cache_.add ends and compile returns true: recompile() clears
\* needs_recompile_ and execute goes on to load_so(); load_so() looks the
\* path up again.
ThrCacheAddEnd(t) ==
    /\ thr.th[t].pc = "adding"
    /\ thr' = [thr EXCEPT !.cache = TRUE,
                          !.th[t] = IF @.via = "recompile"
                                    THEN [@ EXCEPT !.pc = "load_so", !.via = "none",
                                                   !.needs_recompile = FALSE]
                                    ELSE [@ EXCEPT !.pc = "lookup"]]
    /\ UNCHANGED ThrRest

\* What get_so_path may find: cache_ is read without a lock, so a lookup
\* that runs while another thread is inside cache_.add is a data race and
\* may find the entry or not.
ThrLookups(t) ==
    IF \E u \in Threads \ {t} : thr.th[u].pc = "adding"
    THEN BOOLEAN ELSE {thr.cache}

\* JITExecutor::load_so: the handle is set, or the cache holds the path, or
\* load_so() enters JITCompiler::compile itself.
ThrLoadSo(t, found) ==
    /\ thr.th[t].pc = "load_so"
    /\ found \in ThrLookups(t)
    /\ thr' = [thr EXCEPT !.th[t] =
                  IF @.so_handle THEN [@ EXCEPT !.pc = "call"]
                  ELSE IF found THEN [@ EXCEPT !.pc = "open"]
                  ELSE [@ EXCEPT !.pc = "generated", !.via = "load_so"]]
    /\ UNCHANGED ThrRest

\* JITExecutor::load_so after its own compile: get_so_path again.
ThrLookupAgain(t, found) ==
    /\ thr.th[t].pc = "lookup"
    /\ found \in ThrLookups(t)
    /\ thr' = [thr EXCEPT !.th[t] =
                  IF found THEN [@ EXCEPT !.pc = "open"]
                  ELSE ThrReturn(t, "false")]
    /\ UNCHANGED ThrRest

\* JITExecutor::load_so: dlopen and dlsym on the artifact.
ThrOpen(t) ==
    /\ thr.th[t].pc = "open"
    /\ thr' = [thr EXCEPT !.th[t] = [@ EXCEPT !.pc = "call", !.so_handle = TRUE]]
    /\ UNCHANGED ThrRest

\* JITExecutor::execute: the entry is called and execute returns its result.
ThrCall(t) ==
    /\ thr.th[t].pc = "call"
    /\ thr' = [thr EXCEPT !.th[t] = ThrReturn(t, "true")]
    /\ UNCHANGED ThrRest

ThrExecuteAny == \E t \in Threads : ThrExecute(t)
ThrWriteSourceAny == \E t \in Threads : ThrWriteSource(t)
ThrRunCompilerAny == \E t \in Threads, ok \in BOOLEAN : ThrRunCompiler(t, ok)
ThrCacheAddBeginAny == \E t \in Threads : ThrCacheAddBegin(t)
ThrCacheAddEndAny == \E t \in Threads : ThrCacheAddEnd(t)
ThrLoadSoAny == \E t \in Threads, found \in BOOLEAN : ThrLoadSo(t, found)
ThrLookupAgainAny == \E t \in Threads, found \in BOOLEAN : ThrLookupAgain(t, found)
ThrOpenAny == \E t \in Threads : ThrOpen(t)
ThrCallAny == \E t \in Threads : ThrCall(t)

ThrNext ==
    \/ ThrExecuteAny
    \/ ThrWriteSourceAny
    \/ ThrRunCompilerAny
    \/ ThrCacheAddBeginAny
    \/ ThrCacheAddEndAny
    \/ ThrLoadSoAny
    \/ ThrLookupAgainAny
    \/ ThrOpenAny
    \/ ThrCallAny

-----------------------------------------------------------------------------
(* The specifications.  Each machine runs with the others at rest. *)

ExecIdle ==
    /\ xcfg = DemoConfig
    /\ xin = [price_a |-> 0, price_b |-> 0, volume |-> 0]
    /\ ictx = EmptyContext /\ ipc = 0 /\ iret = "none" /\ iorder = <<>>
    /\ jctx = EmptyContext /\ jret = "none"

DiskIdle == disk = EmptyMap

CcIdle == ccLast = NoCcCall

CtxIdle == cx = EmptyContext /\ cxLog = <<>> /\ cxGot = <<>>

CfgIdle == hand = <<>> /\ jdoc = <<>> /\ pcfg = <<>> /\ made = "none"

ThrIdle == thr = <<>>

DllIdle == dll = [i \in DllIds |-> [st |-> "none", handle |-> 0, path |-> <<>>]]

SymSpecInit == SymInit /\ ExecIdle /\ OsInit /\ DiskIdle /\ DllIdle /\ PlInit /\ RtInit
    /\ CcIdle /\ CtxIdle /\ CfgIdle /\ GenInit /\ ThrIdle

ExecSpecInit == SymInit /\ ExecInit /\ OsInit /\ DiskIdle /\ DllIdle /\ PlInit /\ RtInit
    /\ CcIdle /\ CtxIdle /\ CfgIdle /\ GenInit /\ ThrIdle

PipeSpecInit == SymInit /\ PipeInit /\ OsInit /\ DiskIdle /\ DllIdle /\ PlInit /\ RtInit
    /\ CcIdle /\ CtxIdle /\ CfgIdle /\ GenInit /\ ThrIdle

InterpSpecInit == SymInit /\ InterpInit /\ OsInit /\ DiskIdle /\ DllIdle /\ PlInit /\ RtInit
    /\ CcIdle /\ CtxIdle /\ CfgIdle /\ GenInit /\ ThrIdle

MarshalSpecInit == SymInit /\ MarshalInit /\ OsInit /\ DiskIdle /\ DllIdle /\ PlInit /\ RtInit
    /\ CcIdle /\ CtxIdle /\ CfgIdle /\ GenInit /\ ThrIdle

ThreadsSpecInit == SymInit /\ ExecIdle /\ OsInit /\ DiskIdle /\ DllIdle /\ PlInit /\ RtInit
    /\ CcIdle /\ CtxIdle /\ CfgIdle /\ GenInit /\ ThrInit

GenSpecInit == SymInit /\ ExecIdle /\ OsInit /\ DiskIdle /\ DllIdle /\ PlInit /\ RtInit
    /\ CcIdle /\ CtxIdle /\ CfgIdle /\ GenInit /\ ThrIdle

CtxSpecInit == SymInit /\ ExecIdle /\ OsInit /\ DiskIdle /\ DllIdle /\ PlInit /\ RtInit
    /\ CcIdle /\ CtxInit /\ CfgIdle /\ GenInit /\ ThrIdle

CacheSpecInit == SymInit /\ ExecIdle /\ OsInit /\ DllIdle /\ PlInit /\ RtInit
    /\ CcInit /\ CtxIdle /\ CfgIdle /\ GenInit /\ ThrIdle

ConfigSpecInit == SymInit /\ ExecIdle /\ OsInit /\ DiskIdle /\ DllIdle /\ PlInit /\ RtInit
    /\ CcIdle /\ CtxIdle /\ CfgInit /\ GenInit /\ ThrIdle

DllSpecInit == SymInit /\ ExecIdle /\ OsInit /\ DiskIdle /\ DllInit /\ PlInit /\ RtInit
    /\ CcIdle /\ CtxIdle /\ CfgIdle /\ GenInit /\ ThrIdle

LoaderInit ==
    /\ SymInit /\ ExecIdle /\ OsInit /\ DllIdle /\ PlInit /\ RtInit
    /\ CcIdle /\ CtxIdle /\ CfgIdle /\ GenInit /\ ThrIdle
    /\ disk = LoaderDisk

Init == SymInit /\ ExecIdle /\ OsInit /\ DiskIdle /\ DllIdle /\ PlInit /\ RtInit
    /\ CcIdle /\ CtxIdle /\ CfgIdle /\ GenInit /\ ThrIdle

SpecSym == SymSpecInit /\ [][SymNext]_vars

SpecExec == ExecSpecInit /\ [][ExecNext]_vars

SpecPipe == PipeSpecInit /\ [][ExecNext]_vars
SpecInterp == InterpSpecInit /\ [][InterpNext]_vars
SpecGen == GenSpecInit /\ [][GenNext]_vars
SpecMarshal == MarshalSpecInit /\ [][ExecNext]_vars
SpecThreads == ThreadsSpecInit /\ [][ThrNext]_vars

SpecCtx == CtxSpecInit /\ [][CtxNext]_vars

SpecCache == CacheSpecInit /\ [][CcNext]_vars

SpecConfig == ConfigSpecInit /\ [][CfgNext]_vars

SpecDll == DllSpecInit /\ [][DllNext]_vars

SpecLoader == LoaderInit /\ [][PlNext]_vars

Next == RtNext

Spec == Init /\ [][Next]_vars

-----------------------------------------------------------------------------
(* Properties of the interpreter and of the compiled entry (SpecExec) *)

\* (price_a + price_b) * volume / 100 in double arithmetic
DemoScore(in) ==
    DQuot(DMul(DAdd(ToDouble(in.price_a), ToDouble(in.price_b)),
               ToDouble(in.volume)),
          ToDouble(100))

DemoInputs == [price_a |-> 100, price_b |-> 50, volume |-> 10]

\* C1: InterpreterExecutor::execute on the demo pipeline never returns
\* false, and when it has returned true the steps were applied in IR order
\* 1, 2, 3 and final_score holds (price_a + price_b) * volume / 100 as a
\* double, which is 15 for 100, 50 and 10.
C1_InterpreterDemo ==
    /\ iret # "false"
    /\ iorder = [k \in 1..(ipc - 1) |-> k]
    /\ iret = "true" =>
          /\ iorder = <<1, 2, 3>>
          /\ has_variable(ictx, "final_score")
          /\ ictx["final_score"] = Variable("DOUBLE", DemoScore(xin))
          /\ xin = DemoInputs => ictx["final_score"].value = <<15, 1>>

\* The interpreter has returned true for 100, 50, 10.
C1_Witness ==
    /\ iret = "true"
    /\ xin = DemoInputs
    /\ ictx["final_score"].value = <<15, 1>>

\* C2: when the compiled demo entry has been loaded and called for 100, 50
\* and 10 (volume an int32), execute returns true and final_score is 15.0.
C2_JitDemo ==
    (jret # "none" /\ xin = DemoInputs) =>
        /\ jret = "true"
        /\ has_variable(jctx, "final_score")
        /\ jctx["final_score"].value = <<15, 1>>

-----------------------------------------------------------------------------
(* Properties of the entry-symbol names (SpecSym) *)

\* C10 as stated: whatever two distinct fingerprints two configs carry, the
\* entry symbols emitted for them are distinct.
C10_SymbolsDistinct ==
    (symName # <<>> /\ symFp[1] # symFp[2]) => symName[1] # symName[2]

\* C10: for two distinct fingerprints that compute_fingerprint derived (the
\* hex image of a hash), the entry symbols emitted are distinct.
C10_DerivedSymbolsDistinct ==
    (symKind = "derived" /\ symName # <<>> /\ symFp[1] # symFp[2])
        => symName[1] # symName[2]

\* Symbols were emitted for two derived fingerprints, one of which begins
\* with a digit (and is prefixed) and one of which does not.
C10_Witness ==
    /\ symKind = "derived"
    /\ symName # <<>>
    /\ symFp[1] # symFp[2]
    /\ isdigit(symFp[1][1])
    /\ ~isdigit(symFp[2][1])
    /\ symName[1] = PipelineExecutePrefix \o <<"p", "_">> \o symFp[1]

-----------------------------------------------------------------------------
(* Properties of DllLoader (SpecDll) *)

Holders(h) == {i \in DllIds : Alive(i) /\ dll[i].handle = h}

\* C7: every handle a successful dlopen returned is closed at most once;
\* while it is open exactly one live DllLoader holds it (so it is closed
\* when its holder is destroyed, unloads or loads again); and no live
\* DllLoader holds a closed handle.
C7_HandleClosedOnce ==
    /\ \A h \in 1..Len(os) :
          /\ os[h].closes <= 1
          /\ os[h].closes = 0 => Cardinality(Holders(h)) = 1
          /\ os[h].closes = 1 => Holders(h) = {}
    /\ \A i \in DllIds : dll[i].handle # 0 => dll[i].handle \in 1..Len(os)

\* A handle went from its opener, now destroyed, to another instance by a
\* move and is open there; another handle has been closed.
C7_Witness ==
    \E h, k \in 1..Len(os) :
        /\ os[h].closes = 0
        /\ dll[os[h].opener].st = "destroyed"
        /\ \E i \in DllIds : i # os[h].opener /\ Alive(i) /\ dll[i].handle = h
        /\ os[k].closes = 1

-----------------------------------------------------------------------------
(* Properties of PipelineLoader (SpecLoader) *)

-----------------------------------------------------------------------------
(* Properties of the JIT runtime (Spec) *)

TwoCalls == exHist.prev # <<>> /\ exHist.last # <<>>

C4_SecondExecutorNoCompile ==
    (exHist.last # <<>> /\ exHist.last[1].cached) => exHist.last[1].cc = 0

\* C5: an execute called with needs_recompile_ set whose recompile() met a
\* failing compile returns false, calls dlopen zero times and calls no
\* entry.
C5_FailedCompileReturnsFalse ==
    (exHist.last # <<>> /\ exHist.last[1].needs /\ exHist.last[1].failed) =>
        /\ ~exHist.last[1].ret
        /\ exHist.last[1].dlopens = 0
        /\ ~exHist.last[1].called

\* C6: whenever the artifact file of a fingerprint is on disk in the cache
\* directory, get_so_path of that fingerprint returns its path (after
\* clear_cache too).
C6_ArtifactOnDiskFound ==
    \A f \in RtFingerprints :
        file_exists(disk, get_cache_path(f)) =>
            JITCompiler_get_so_path(cache, disk, f) = get_cache_path(f)

OpenedBy(who) == {h \in 1..Len(os) : os[h].opener = who}

\* C9: every handle a destroyed JITExecutor had opened is closed, once; and
\* after unload_all on the LoadManager's PipelineLoader every handle it had
\* opened is closed, once, and loaded_count() is 0.
C9_HandlesReleased ==
    /\ \A e \in ExecutorIds :
          ex[e].st = "dead" => \A h \in OpenedBy(e) : os[h].closes = 1
    /\ plLast.op = "unload_all" =>
          /\ \A h \in OpenedBy("lm") : os[h].closes = 1
          /\ PipelineLoader_loaded_count(pl) = 0

\* An executor that had loaded a library is destroyed, and unload_all was
\* called on a loader that had loaded one.
C9_Witness ==
    /\ \E e \in ExecutorIds : ex[e].st = "dead" /\ OpenedBy(e) # {}
    /\ plLast.op = "unload_all"
    /\ OpenedBy("lm") # {}

-----------------------------------------------------------------------------
(* Properties of the executors on the two-input pipelines (SpecPipe) *)

\* The positions of the steps whose operator the interpreter does not
\* dispatch on.
UnknownSteps(config) ==
    {i \in 1..Len(config.steps) : config.steps[i].op_name \notin DispatchTable}

FirstUnknown(config) ==
    CHOOSE i \in UnknownSteps(config) : \A j \in UnknownSteps(config) : i <= j

\* C12: on a pipeline with a step whose operator is not in the dispatch
\* table, InterpreterExecutor::execute applies exactly the steps before the
\* first such step, in order, never returns true, returns false standing at
\* that step, and no later step's output variable is ever set.
C12_StopsAtFirstUnknown ==
    UnknownSteps(xcfg) # {} =>
        LET u == FirstUnknown(xcfg)
        IN  /\ ipc <= u
            /\ iorder = [i \in 1..(ipc - 1) |-> i]
            /\ iret # "true"
            /\ iret = "false" => ipc = u
            /\ \A i \in u..Len(xcfg.steps) :
                    ~has_variable(ictx, xcfg.steps[i].output_var)

\* The interpreter has returned false at an unknown second step of three.
C12_Witness ==
    /\ UnknownSteps(xcfg) = {2}
    /\ iret = "false"
    /\ iorder = <<1>>
    /\ has_variable(ictx, "s")

\* The divisor of the div step as InterpreterExecutor::get_arg_value reads
\* it from the caller's context.
InterpDivisor == get_arg_value(DivPipeline.steps[1].args[2], PipeContext(xin))

\* C13: with a zero divisor the interpreter's div stores 0.0 and the
\* pipeline goes on (it never returns false, and r = q + 1 is 1); the
\* compiled entry, through ops::div_op, returns true with q = 0.0 and r = 1.
C13_DivByZeroIsZero ==
    xcfg = DivPipeline =>
        /\ iret # "false"
        /\ (DIsZero(InterpDivisor) /\ ipc > 1) => ictx["q"].value = <<0, 1>>
        /\ (DIsZero(InterpDivisor) /\ ipc > 2) => ictx["r"].value = <<1, 1>>
        /\ jret # "false"
        /\ (xin.how = "full" /\ xin.y = 0 /\ jret # "none") =>
                /\ jret = "true"
                /\ jctx["q"].value = <<0, 1>>
                /\ jctx["r"].value = <<1, 1>>

\* Both executors have finished x / 0 for a non-zero x.
C13_Witness ==
    /\ xcfg = DivPipeline
    /\ xin.how = "full" /\ xin.y = 0 /\ xin.x # 0
    /\ iret = "true" /\ ictx["q"].value = <<0, 1>>
    /\ jret = "true" /\ jctx["q"].value = <<0, 1>>

\* C14: on a negative x the interpreter's sqrt and the compiled entry's
\* sqrt_op both store 0.0, so the two executors agree.
C14_SqrtNegativeIsZero ==
    (xcfg = SqrtPipeline /\ xin.x < 0) =>
        /\ ipc > 1 => ictx["r"].value = <<0, 1>>
        /\ jret = "true" => jctx["r"].value = <<0, 1>>
        /\ (iret = "true" /\ jret = "true") => ictx["r"] = jctx["r"]

\* C17: execute returns true or false on either executor, whatever the
\* caller stored for the declared inputs; no exception reaches the caller.
C17_NoExceptionEscapes ==
    /\ iret \in {"running", "true", "false"}
    /\ jret \in {"none", "true", "false"}

-----------------------------------------------------------------------------
(* Properties of ExecutionContext (SpecCtx) *)

\* The position of the last clear among the first k calls, 0 when none.
LastClear(k) ==
    LET cs == {i \in 1..k : cxLog[i].call = "clear"}
    IN  IF cs = {} THEN 0 ELSE CHOOSE i \in cs : \A j \in cs : j <= i

\* The positions, among the first k calls, of the set_variable calls for n
\* made after the last clear.
SetsSince(n, k) ==
    {i \in (LastClear(k) + 1)..k :
        cxLog[i].call = "set_variable" /\ cxLog[i].name = n}

\* The most recent of them.
LastSet(n, k) ==
    cxLog[CHOOSE i \in SetsSince(n, k) : \A j \in SetsSince(n, k) : j <= i]

\* C16: has_variable(n) is true exactly when n was set since the last
\* clear; get<T>(n), T being the type of the value last set, returns that
\* value; get on a name that is not present raises instead of returning.
C16_ContextTracksCalls ==
    /\ \A n \in CtxNames :
          has_variable(cx, n) <=> SetsSince(n, Len(cxLog)) # {}
    /\ cxGot # <<>> =>
          IF SetsSince(cxGot.name, cxGot.at) = {}
          THEN cxGot.result.throws = "runtime_error"
          ELSE LET last == LastSet(cxGot.name, cxGot.at)
               IN  cxGot.type = last.type =>
                      /\ cxGot.result.throws = "no"
                      /\ cxGot.result.value = <<last.value>>

\* A name set twice with different values of one type was read after the
\* second set.
C16_Witness ==
    /\ cxGot # <<>>
    /\ cxGot.at = 2
    /\ Len(cxLog) = 2
    /\ cxLog[1].call = "set_variable" /\ cxLog[2].call = "set_variable"
    /\ cxLog[1].name = cxLog[2].name /\ cxLog[1].type = cxLog[2].type
    /\ cxLog[1].value # cxLog[2].value
    /\ cxGot.name = cxLog[2].name /\ cxGot.type = cxLog[2].type
    /\ cxGot.result.throws = "no"

-----------------------------------------------------------------------------
(* Properties of JITCompiler and its cache called directly (SpecCache) *)

\* C18: is_valid(F) is true exactly when the cache holds an entry for F
\* whose .so file is present, whether or not the entry's source file exists.
C18_ValidIffArtifactPresent ==
    ccLast.op = "is_valid" =>
        (ccLast.ret <=>
            /\ ccLast.key \in DOMAIN cache
            /\ file_exists(disk, cache[ccLast.key].so_path))

\* C19: compile returns true exactly when directory, source write and
\* compiler run all succeed; a failed compile leaves the cache as it was,
\* a successful one adds or replaces the entry of its fingerprint only.
C19_CacheEntryOnlyOnSuccess ==
    ccLast.op = "compile" =>
        /\ ccLast.ret <=> ccLast.outcome = "ok"
        /\ ~ccLast.ret => cache = ccLast.before
        /\ ccLast.ret =>
              /\ ccLast.key \in DOMAIN cache
              /\ DOMAIN cache = DOMAIN ccLast.before \cup {ccLast.key}
              /\ \A f \in DOMAIN ccLast.before \ {ccLast.key} :
                    cache[f] = ccLast.before[f]

\* The native compiler has failed on a fingerprint the cache does not
\* hold, while the cache holds another entry.
C19_Witness ==
    /\ ccLast.op = "compile"
    /\ ccLast.outcome = "cc_fail"
    /\ ccLast.before # EmptyMap
    /\ ccLast.key \notin DOMAIN cache
    /\ Cardinality(DOMAIN cache) = 1

\* C20: when compile is given an empty fingerprint, the entry symbol of the
\* source it writes is pipeline_execute_<sanitised derived fingerprint>,
\* the fingerprint that keys the cache and names the artifact.
C20_EntryMatchesDerivedFingerprint ==
    (ccLast.op = "compile" /\ ccLast.given = <<>> /\ ccLast.emitted # <<>>) =>
        /\ ccLast.key = derive_fingerprint("demo")
        /\ ccLast.emitted = EntrySymbol(ccLast.key)

-----------------------------------------------------------------------------
(* Properties of the config parser, validator and generator (SpecConfig) *)

\* A declared field of the document whose type text names no DataType.
TypeFailedToParse(j) ==
    \E fs \in {j.inputs, j.variables, j.outputs} :
        \E i \in 1..Len(fs) : string_to_data_type(fs[i].type) = "UNKNOWN"

\* C11: create_from_file constructs no executor for a document whose
\* pipeline name is empty, or with a step whose operator name or output
\* variable is empty, or with a declared field whose type failed to parse.
C11_InvalidConfigRejected ==
    (made # "none" /\ hand = <<>>) =>
        LET config == parse_string(jdoc)
        IN  (\/ config.name = <<>>
             \/ \E i \in 1..Len(config.steps) :
                    \/ config.steps[i].op_name = <<>>
                    \/ config.steps[i].output_var = <<>>
             \/ TypeFailedToParse(jdoc))
            => made = "rejected"

\* C15: the config parsed from generate_json(c) has the fingerprint that
\* compute_fingerprint gives for c.
C15_RoundTripFingerprint ==
    (hand # <<>> /\ pcfg # <<>>) =>
        pcfg.fingerprint = PipelineConfig_compute_fingerprint(hand)

-----------------------------------------------------------------------------
(* Properties of the PipelineLoader under failed loads (SpecLoader) *)

\* C30: is_loaded(F) is true only if the library whose entry is recorded
\* for F is open, and execute(F) never calls an entry of a closed library.
C30_LoadedImpliesOpen ==
    /\ \A f \in Fingerprints :
          PipelineLoader_is_loaded(pl, f) => IsOpen(os, pl.functions[f].handle)
    /\ plLast.op = "execute" => ~plLast.dangling

\* The names a step at position i may refer to: the inputs, the declared
\* variables and the outputs of the steps before it.
DefinedBefore(config, i) ==
    {config.inputs[k].name : k \in 1..Len(config.inputs)}
    \cup {config.variables[k].name : k \in 1..Len(config.variables)}
    \cup {config.steps[k].output_var : k \in 1..(i - 1)}

\* C23: in a config that validation accepted, every argument that is a
\* variable reference names an input, a declared variable or the output of
\* an earlier step.
C23_ReferencesDefined ==
    (made = "executor" /\ hand = <<>>) =>
        LET config == parse_string(jdoc)
        IN  \A i \in 1..Len(config.steps) :
                \A k \in 1..Len(config.steps[i].args) :
                    config.steps[i].args[k].type = "VARIABLE" =>
                        config.steps[i].args[k].value \in DefinedBefore(config, i)

\* C24: in a config that validation accepted, every step of a catalog
\* operator has as many arguments as the catalog declares parameters.
C24_ArityMatchesCatalog ==
    (made = "executor" /\ hand = <<>>) =>
        LET config == parse_string(jdoc)
        IN  \A i \in 1..Len(config.steps) :
                get_operator(config.steps[i].op_name) # "" =>
                    Len(config.steps[i].args) =
                        CatalogArity[get_operator(config.steps[i].op_name)]

-----------------------------------------------------------------------------
(* The interpreter against the operator catalog (SpecInterp) *)

\* The interpreter stopped at its only step and returned false.
StepRejected == ipc = 1 /\ iret = "false"

\* C25: for every operator name registered in the catalog, a step using it
\* with the catalog's arity of numeric arguments is dispatched by the
\* interpreter: when the step fails, it is not because the name is outside
\* the dispatch chain (an unknown operator).
C25_CatalogOperatorsDispatched ==
    (xcfg.steps[1].op_name \in DOMAIN CatalogArity /\ StepRejected)
        => xcfg.steps[1].op_name \in DispatchTable

\* The condition of the if_else step, as a number.
IfElseCondition ==
    LET c == xcfg.steps[1].args[1]
    IN  IF c.type = "VARIABLE" THEN ToDouble(xin.x) ELSE stod(c.value).val

\* C26: in the interpreter a step if_else(c, t, f) over numeric variables
\* or literals succeeds and assigns t to the output variable when c is
\* non-zero and f otherwise.
C26_IfElseSelects ==
    (xcfg.steps[1].op_name = "if_else" /\ iret # "running")
        => /\ iret = "true"
           /\ has_variable(ictx, "r")
           /\ ictx["r"] = Variable("DOUBLE",
                               IF ~DIsZero(IfElseCondition)
                               THEN ToDouble(xin.y) ELSE ToDouble(xin.z))

-----------------------------------------------------------------------------
(* The generated source (SpecGen) *)

\* The distinct names among the inputs, the declared variables and the step
\* outputs of a config.
DeclaredNames(config) ==
    {config.inputs[i].name : i \in 1..Len(config.inputs)}
    \cup {config.variables[i].name : i \in 1..Len(config.variables)}
    \cup {config.steps[i].output_var : i \in 1..Len(config.steps)}

\* C21: the emitted PipelineContext declares exactly one member for each
\* distinct name among the inputs, the declared variables and the step
\* outputs.
C21_OneFieldPerName ==
    \A u \in 1..Len(gen) :
        \A n \in DeclaredNames(gen[u].config) :
            Cardinality({i \in 1..Len(gen[u].source.context_struct) :
                            gen[u].source.context_struct[i].name = n}) = 1

\* C22: two configs for which generate yields different source have
\* different fingerprints.
C22_FingerprintCoversSource ==
    \A u, v \in 1..Len(gen) :
        gen[u].source # gen[v].source
            => gen[u].config.fingerprint # gen[v].config.fingerprint

-----------------------------------------------------------------------------
(* The JIT executor's marshalling (SpecMarshal) *)

\* C27: for every declared input, the array slot into which
\* JITExecutor::execute writes the input's value (array, index, element
\* type) is the slot from which the entry reads it, and the entry reads no
\* slot beyond those the executor filled.
C27_InputSlotsAgree ==
    jret # "none" =>
        \A i \in 1..Len(xcfg.inputs) :
            /\ ExecutorSlot(xcfg, i) = EntrySlot(xcfg, i)
            /\ (EntrySlot(xcfg, i).index + 1) * SizeOf(EntrySlot(xcfg, i).type_name)
                  <= 8 * Len(MarshalInputs(xcfg, MarshalContext(xcfg, xin)))

\* C28: after a successful JITExecutor::execute each declared output holds,
\* in the context, the value the pipeline body computed for it, converted to
\* the output's declared type.
C28_OutputsWrittenBack ==
    jret = "true" =>
        \E g \in Garbage :
            LET mem == MarshalInputs(xcfg, MarshalContext(xcfg, xin))
                final == EntryFields(xcfg, mem, g)
            IN  \A k \in 1..Len(xcfg.outputs) :
                    LET f == xcfg.outputs[k]
                        want == Convert(final[f.name], FieldType(xcfg, f.name), f.type)
                    IN  /\ has_variable(jctx, f.name)
                        /\ jctx[f.name].type = f.type
                        /\ ~IsImageValue(jctx[f.name])
                        /\ jctx[f.name].value = want

-----------------------------------------------------------------------------
(* Concurrent compilation (SpecThreads) *)

\* The threads that are inside JITCompiler::compile.
Compiling == {t \in Threads : thr.th[t].pc \in CompileStages}

\* C29: when two threads call execute on distinct JITExecutor instances
\* that share a fingerprint, at most one compile (source write, compiler
\* run and cache insert) for the fingerprint is in progress at any time.
C29_OneCompileAtATime == Cardinality(Compiling) <= 1

=============================================================================
